---- MODULE Spec2Model ----
\* Model of taiyo's query-parameter compiler: the pydantic models that describe
\* a Solr request (query parsers, sub-configs) and build(), which serializes
\* them into the flat wire parameter map.
EXTENDS Integers, Sequences, FiniteSets, TLC

\* ---------------------------------------------------------------------------
\* Bounds of the model (not program constants).
\* ---------------------------------------------------------------------------

\* Largest number of sub-configs on one parser (constructor list plus chained calls).
MaxConfigs == 2

\* Longest list the caller passes for a list-valued field.
MaxListLen == 2

\* Largest number of consecutive build() calls that is counted.
MaxBuilds == 2

\* HTTP requests a client sends in one behaviour.
MaxRequests == 2

\* ---------------------------------------------------------------------------
\* Python values.  Every value carries its type tag k, so that values of
\* different Python types are never equal.
\* ---------------------------------------------------------------------------

\* Python None.
NoneV == [k |-> "none", v |-> "None"]

\* pydantic's marker of a field without a default (Field(...)).
Required == [k |-> "required", v |-> "..."]

\* str
StrV(s) == [k |-> "str", v |-> s]

\* int
IntV(n) == [k |-> "int", v |-> n]

\* float, held in tenths: FloatV(25) is 2.5
FloatV(t) == [k |-> "float", v |-> t]

\* bool
BoolV(b) == [k |-> "bool", v |-> b]

\* list[str], as a sequence of strings
ListV(seq) == [k |-> "list", v |-> seq]

\* list[float], as a sequence of tenths
FloatsV(seq) == [k |-> "floats", v |-> seq]

\* Dict[str, float] in insertion order, as a sequence of <<key, tenths>>
MapV(seq) == [k |-> "map", v |-> seq]

\* a ParamsConfig object passed as a value
ConfigV(cfg) == [k |-> "config", v |-> cfg]

\* repr() of a Python float with one decimal digit and no sign: 1.0, 0.5, 12.3
FloatStr(t) == ToString(t \div 10) \o "." \o ToString(t % 10)

\* sep.join(strs)
RECURSIVE Join(_, _)
Join(strs, sep) ==
    IF Len(strs) = 0 THEN ""
    ELSE IF Len(strs) = 1 THEN strs[1]
    ELSE strs[1] \o sep \o Join(Tail(strs), sep)

\* str(v) / f"{v}" of a Python value
PyStr(val) ==
    CASE val.k = "none" -> "None"
      [] val.k = "str" -> val.v
      [] val.k = "int" -> ToString(val.v)
      [] val.k = "float" -> FloatStr(val.v)
      [] val.k = "bool" -> IF val.v THEN "True" ELSE "False"
      [] val.k = "floats" ->
            "[" \o Join([i \in 1..Len(val.v) |-> FloatStr(val.v[i])], ", ") \o "]"
      [] val.k = "list" ->
            "[" \o Join([i \in 1..Len(val.v) |-> "'" \o val.v[i] \o "'"], ", ") \o "]"

\* str.lower() on the two strings str(bool) can produce
Lower(s) == IF s = "True" THEN "true" ELSE IF s = "False" THEN "false" ELSE s

\* A truthiness under which only None is false.
Truthy_not_none(val) == val.k # "none"

\* bool(v): Python truthiness
Truthy(val) ==
    CASE val.k = "none" -> FALSE
      [] val.k = "str" -> val.v # ""
      [] val.k = "int" -> val.v # 0
      [] val.k = "float" -> val.v # 0
      [] val.k = "bool" -> val.v
      [] val.k \in {"list", "floats", "map", "dict"} -> Len(val.v) > 0
      [] OTHER -> TRUE

\* ---------------------------------------------------------------------------
\* Field declarations.
\* ---------------------------------------------------------------------------

\* pydantic Field(default, alias=..., exclude=...); alias "" is "no alias".
Field(name, alias, default, exclude) ==
    [name |-> name, alias |-> alias, default |-> default, exclude |-> exclude]

\* CommonParamsMixin: the declared fields, in declaration order (src/taiyo/params/mixins/common.py).
CommonParamsMixin_fields ==
    <<Field("sort", "", StrV("score desc"), FALSE),
       Field("start", "", IntV(0), FALSE),
       Field("rows", "", IntV(10), FALSE),
       Field("can_cancel", "canCancel", BoolV(FALSE), FALSE),
       Field("query_uuid", "queryUUID", NoneV, FALSE),
       Field("filters", "fq", NoneV, FALSE),
       Field("field_list", "fl", StrV("*"), FALSE),
       Field("debug", "", NoneV, FALSE),
       Field("explain_other", "explainOther", NoneV, FALSE),
       Field("partial_results", "partialResults", BoolV(TRUE), FALSE),
       Field("time_allowed", "timeAllowed", NoneV, FALSE),
       Field("cpu_allowed", "cpuAllowed", NoneV, FALSE),
       Field("max_hits_allowed", "maxHitsAllowed", NoneV, FALSE),
       Field("mem_allowed", "memAllowed", NoneV, FALSE),
       Field("segment_terminate_early", "segmentTerminateEarly", BoolV(FALSE), FALSE),
       Field("multi_threaded", "multiThreaded", BoolV(FALSE), FALSE),
       Field("omit_header", "omitHeader", BoolV(FALSE), FALSE),
       Field("writer_type", "", StrV("json"), FALSE),
       Field("log_params_list", "logParamsList", NoneV, FALSE),
       Field("echo_params", "echoParams", NoneV, FALSE),
       Field("min_exact_count", "minExactCount", NoneV, FALSE) >>

\* StandardParser: the declared fields, in declaration order (src/taiyo/parsers/sparse/lucene.py).
StandardParser_fields ==
    <<Field("query", "q", Required, FALSE),
       Field("query_operator", "q.op", NoneV, FALSE),
       Field("default_field", "df", NoneV, FALSE),
       Field("split_on_whitespace", "sow", NoneV, FALSE) >>

\* DisMaxQueryParser: the declared fields, in declaration order (src/taiyo/parsers/sparse/dismax.py).
DisMaxQueryParser_fields ==
    <<Field("query", "q", NoneV, FALSE),
       Field("alternate_query", "q.alt", NoneV, FALSE),
       Field("query_fields", "qf", NoneV, FALSE),
       Field("query_slop", "qs", NoneV, FALSE),
       Field("min_match", "mm", NoneV, FALSE),
       Field("phrase_fields", "pf", NoneV, FALSE),
       Field("phrase_slop", "ps", NoneV, FALSE),
       Field("tie_breaker", "tie", FloatV(0), FALSE),
       Field("boost_queries", "bq", NoneV, FALSE),
       Field("boost_functons", "bf", NoneV, FALSE) >>

\* ExtendedDisMaxQueryParser: the declared fields, in declaration order (src/taiyo/parsers/sparse/edismax.py).
ExtendedDisMaxQueryParser_fields ==
    <<Field("split_on_whitespace", "", NoneV, FALSE),
       Field("min_match_auto_relax", "mm.autoRelax", NoneV, FALSE),
       Field("lowercase_operators", "lowercaseOperators", NoneV, FALSE),
       Field("phrase_fields_bigram", "", NoneV, FALSE),
       Field("phrase_slop_bigram", "", NoneV, FALSE),
       Field("phrase_fields_trigram", "", NoneV, FALSE),
       Field("phrase_slop_trigram", "", NoneV, FALSE),
       Field("stopwords", "", NoneV, FALSE),
       Field("user_fields", "", NoneV, FALSE) >>

\* DenseVectorSearchParamsMixin: the declared fields, in declaration order (src/taiyo/params/mixins/dense_vector_search.py).
DenseVectorSearchParamsMixin_fields ==
    <<Field("field", "f", Required, FALSE),
       Field("pre_filter", "preFilter", NoneV, FALSE),
       Field("include_tags", "includeTags", NoneV, FALSE),
       Field("exclude_tags", "excludeTags", NoneV, FALSE) >>

\* KNNQueryParser: the declared fields, in declaration order (src/taiyo/parsers/dense/knn.py).
KNNQueryParser_fields ==
    <<Field("vector", "vector", Required, TRUE),
       Field("top_k", "topK", IntV(10), TRUE) >>

\* VectorSimilarityQueryParser: the declared fields, in declaration order (src/taiyo/parsers/dense/vector_similarity.py).
VectorSimilarityQueryParser_fields ==
    <<Field("vector", "vector", Required, TRUE),
       Field("min_return", "minReturn", NoneV, TRUE),
       Field("min_traverse", "minTraverse", NoneV, TRUE) >>

\* KNNTextToVectorQueryParser: the declared fields, in declaration order (src/taiyo/parsers/dense/knn_text_to_vector.py).
KNNTextToVectorQueryParser_fields ==
    <<Field("text", "", Required, TRUE),
       Field("model", "", NoneV, TRUE),
       Field("top_k", "topK", IntV(10), TRUE) >>

\* SpatialSearchParamsMixin: the declared fields, in declaration order (src/taiyo/params/mixins/spatial_search.py).
SpatialSearchParamsMixin_fields ==
    <<Field("spatial_field", "sfield", Required, FALSE),
       Field("center_point", "pt", Required, FALSE),
       Field("radial_distance", "d", Required, FALSE),
       Field("score", "", NoneV, FALSE),
       Field("filter", "", NoneV, FALSE),
       Field("cache", "", NoneV, FALSE) >>

\* GeoFilterQueryParser: the declared fields, in declaration order (src/taiyo/parsers/spatial/geofilt.py).
GeoFilterQueryParser_fields ==
    <<Field("filter_type", "", StrV("geofilt"), FALSE) >>

\* BBoxQueryParser: the declared fields, in declaration order (src/taiyo/parsers/spatial/bbox.py).
BBoxQueryParser_fields ==
    <<Field("bbox_field", "", Required, FALSE),
       Field("predicate", "", StrV("Intersects"), FALSE),
       Field("envelope", "", Required, FALSE),
       Field("score", "", NoneV, FALSE) >>

\* TermsQueryParser: the declared fields, in declaration order (src/taiyo/parsers/terms/terms.py).
TermsQueryParser_fields ==
    <<Field("query", "q", StrV("*:*"), FALSE),
       Field("field", "f", Required, TRUE),
       Field("terms", "", Required, TRUE),
       Field("separator", "", StrV(","), TRUE),
       Field("method", "method", NoneV, FALSE) >>

\* FacetParamsConfig: the declared fields, in declaration order (src/taiyo/params/configs/facet.py).
FacetParamsConfig_fields ==
    <<Field("enable_key", "", StrV("facet"), FALSE),
       Field("queries", "facet.query", NoneV, FALSE),
       Field("fields", "facet.field", NoneV, FALSE),
       Field("prefix", "facet.prefix", NoneV, FALSE),
       Field("contains", "facet.contains", NoneV, FALSE),
       Field("contains_ignore_case", "facet.contains.ignoreCase", NoneV, FALSE),
       Field("matches", "facet.matches", NoneV, FALSE),
       Field("sort", "facet.sort", NoneV, FALSE),
       Field("limit", "facet.limit", NoneV, FALSE),
       Field("offset", "facet.offset", NoneV, FALSE),
       Field("mincount", "facet.mincount", NoneV, FALSE),
       Field("missing", "facet.missing", NoneV, FALSE),
       Field("method", "facet.method", NoneV, FALSE),
       Field("enum_cache_min_df", "facet.enum.cache.minDf", NoneV, FALSE),
       Field("exists", "facet.exists", NoneV, FALSE),
       Field("exclude_terms", "facet.excludeTerms", NoneV, FALSE),
       Field("overrequest_count", "facet.overrequest.count", NoneV, FALSE),
       Field("overrequest_ratio", "facet.overrequest.ratio", NoneV, FALSE),
       Field("threads", "facet.threads", NoneV, FALSE),
       Field("range_field", "facet.range", NoneV, FALSE),
       Field("range_start", "facet.range.start", NoneV, FALSE),
       Field("range_end", "facet.range.end", NoneV, FALSE),
       Field("range_gap", "facet.range.gap", NoneV, FALSE),
       Field("range_hardend", "facet.range.hardend", NoneV, FALSE),
       Field("range_include", "facet.range.include", NoneV, FALSE),
       Field("range_other", "facet.range.other", NoneV, FALSE),
       Field("range_method", "facet.range.method", NoneV, FALSE),
       Field("pivot_fields", "facet.pivot", NoneV, FALSE),
       Field("pivot_mincount", "facet.pivot.mincount", NoneV, FALSE) >>

\* GroupParamsConfig: the declared fields, in declaration order (src/taiyo/params/configs/group.py).
GroupParamsConfig_fields ==
    <<Field("enable_key", "", StrV("group"), FALSE),
       Field("by", "group.field", NoneV, FALSE),
       Field("func", "group.func", NoneV, FALSE),
       Field("query", "group.query", NoneV, FALSE),
       Field("limit", "group.limit", IntV(1), FALSE),
       Field("offset", "group.offset", NoneV, FALSE),
       Field("sort", "group.sort", NoneV, FALSE),
       Field("format", "group.format", StrV("grouped"), FALSE),
       Field("main", "group.main", NoneV, FALSE),
       Field("ngroups", "group.ngroups", BoolV(FALSE), FALSE),
       Field("truncate", "group.truncate", BoolV(FALSE), FALSE),
       Field("facet", "group.facet", BoolV(FALSE), FALSE),
       Field("cache_percent", "group.cache.percent", IntV(0), FALSE) >>

\* HighlightParamsConfig: the declared fields, in declaration order (src/taiyo/params/configs/highlight.py).
HighlightParamsConfig_fields ==
    <<Field("enable_key", "", StrV("hl"), FALSE),
       Field("method", "hl.method", NoneV, FALSE),
       Field("fields", "hl.fl", NoneV, FALSE),
       Field("query", "hl.q", NoneV, FALSE),
       Field("query_parser", "hl.qparser", NoneV, FALSE),
       Field("require_field_match", "hl.requireFieldMatch", NoneV, FALSE),
       Field("query_field_pattern", "hl.queryFieldPattern", NoneV, FALSE),
       Field("use_phrase_highlighter", "hl.usePhraseHighlighter", NoneV, FALSE),
       Field("multiterm", "hl.highlightMultiTerm", NoneV, FALSE),
       Field("snippets_per_field", "hl.snippets", NoneV, FALSE),
       Field("fragment_size", "hl.fragsize", NoneV, FALSE),
       Field("encoder", "hl.encoder", NoneV, FALSE),
       Field("max_analyzed_chars", "hl.maxAnalyzedChars", NoneV, FALSE),
       Field("tag_before", "hl.tag.pre", NoneV, FALSE),
       Field("tag_after", "hl.tag.post", NoneV, FALSE),
       Field("offset_source", "hl.offsetSource", NoneV, FALSE),
       Field("frag_align_ratio", "hl.fragAlignRatio", NoneV, FALSE),
       Field("fragsize_is_minimum", "hl.fragsizeIsMinimum", NoneV, FALSE),
       Field("tag_ellipsis", "hl.tag.ellipsis", NoneV, FALSE),
       Field("default_summary", "hl.defaultSummary", NoneV, FALSE),
       Field("score_k1", "hl.score.k1", NoneV, FALSE),
       Field("score_b", "hl.score.b", NoneV, FALSE),
       Field("score_pivot", "hl.score.pivot", NoneV, FALSE),
       Field("bs_language", "hl.bs.language", NoneV, FALSE),
       Field("bs_country", "hl.bs.country", NoneV, FALSE),
       Field("bs_variant", "hl.bs.variant", NoneV, FALSE),
       Field("bs_type", "hl.bs.type", NoneV, FALSE),
       Field("bs_separator", "hl.bs.separator", NoneV, FALSE),
       Field("weight_matches", "hl.weightMatches", NoneV, FALSE),
       Field("merge_contiguous", "hl.mergeContiguous", NoneV, FALSE),
       Field("max_multivalued_to_examine", "hl.maxMultiValuedToExamine", NoneV, FALSE),
       Field("max_multivalued_to_match", "hl.maxMultiValuedToMatch", NoneV, FALSE),
       Field("alternate_field", "hl.alternateField", NoneV, FALSE),
       Field("max_alternate_field_length", "hl.maxAlternateFieldLength", NoneV, FALSE),
       Field("alternate", "hl.highlightAlternate", NoneV, FALSE),
       Field("formatter", "hl.formatter", NoneV, FALSE),
       Field("simple_pre", "hl.simple.pre", NoneV, FALSE),
       Field("simple_post", "hl.simple.post", NoneV, FALSE),
       Field("fragmenter", "hl.fragmenter", NoneV, FALSE),
       Field("regex_slop", "hl.regex.slop", NoneV, FALSE),
       Field("regex_pattern", "hl.regex.pattern", NoneV, FALSE),
       Field("regex_max_analyzed_chars", "hl.regex.maxAnalyzedChars", NoneV, FALSE),
       Field("preserve_multi", "hl.preserveMulti", NoneV, FALSE),
       Field("payloads", "hl.payloads", NoneV, FALSE),
       Field("frag_list_builder", "hl.fragListBuilder", NoneV, FALSE),
       Field("fragments_builder", "hl.fragmentsBuilder", NoneV, FALSE),
       Field("boundary_scanner", "hl.boundaryScanner", NoneV, FALSE),
       Field("phrase_limit", "hl.phraseLimit", NoneV, FALSE),
       Field("multivalue_separator", "hl.multiValuedSeparatorChar", NoneV, FALSE) >>

\* MoreLikeThisParamsConfig: the declared fields, in declaration order (src/taiyo/params/configs/more_like_this.py).
MoreLikeThisParamsConfig_fields ==
    <<Field("enable_key", "", StrV("mlt"), FALSE),
       Field("fields", "mlt.fl", NoneV, FALSE),
       Field("min_term_freq", "mlt.mintf", NoneV, FALSE),
       Field("min_doc_freq", "mlt.mindf", NoneV, FALSE),
       Field("max_doc_freq", "mlt.maxdf", NoneV, FALSE),
       Field("max_doc_freq_pct", "mlt.maxdfpct", NoneV, FALSE),
       Field("min_word_len", "mlt.minwl", NoneV, FALSE),
       Field("max_word_len", "mlt.maxwl", NoneV, FALSE),
       Field("max_query_terms", "mlt.maxqt", NoneV, FALSE),
       Field("max_num_tokens_parsed", "mlt.maxntp", NoneV, FALSE),
       Field("boost", "mlt.boost", NoneV, FALSE),
       Field("query_fields", "mlt.qf", NoneV, FALSE),
       Field("interesting_terms", "mlt.interestingTerms", NoneV, FALSE),
       Field("match_include", "mlt.match.include", NoneV, FALSE),
       Field("match_offset", "mlt.match.offset", NoneV, FALSE) >>

\* ---------------------------------------------------------------------------
\* Classes.
\* ---------------------------------------------------------------------------

\* The concrete query parsers (query variants).
ParserClasses ==
    { "StandardParser", "DisMaxQueryParser", "ExtendedDisMaxQueryParser",
      "KNNQueryParser", "VectorSimilarityQueryParser", "KNNTextToVectorQueryParser",
      "GeoFilterQueryParser", "BBoxQueryParser", "TermsQueryParser" }

\* The sub-config classes.
ConfigClasses ==
    { "FacetParamsConfig", "GroupParamsConfig", "HighlightParamsConfig",
      "MoreLikeThisParamsConfig" }

\* Subclasses of DenseVectorSearchQueryParser.
DenseClasses ==
    { "KNNQueryParser", "VectorSimilarityQueryParser", "KNNTextToVectorQueryParser" }

\* Subclasses of SpatialQueryParser.
SpatialClasses == { "GeoFilterQueryParser" }

\* model_fields of a class: the fields of its bases, base-most first, then its
\* own (the "configs" field of BaseQueryParser is kept apart, in self.configs).
ModelFields(cls) ==
    CASE cls = "StandardParser" -> CommonParamsMixin_fields \o StandardParser_fields
      [] cls = "DisMaxQueryParser" -> CommonParamsMixin_fields \o DisMaxQueryParser_fields
      [] cls = "ExtendedDisMaxQueryParser" ->
            CommonParamsMixin_fields \o DisMaxQueryParser_fields
                \o ExtendedDisMaxQueryParser_fields
      [] cls = "KNNQueryParser" ->
            DenseVectorSearchParamsMixin_fields \o CommonParamsMixin_fields
                \o KNNQueryParser_fields
      [] cls = "VectorSimilarityQueryParser" ->
            DenseVectorSearchParamsMixin_fields \o CommonParamsMixin_fields
                \o VectorSimilarityQueryParser_fields
      [] cls = "KNNTextToVectorQueryParser" ->
            DenseVectorSearchParamsMixin_fields \o CommonParamsMixin_fields
                \o KNNTextToVectorQueryParser_fields
      [] cls = "GeoFilterQueryParser" ->
            SpatialSearchParamsMixin_fields \o CommonParamsMixin_fields
                \o GeoFilterQueryParser_fields
      [] cls = "BBoxQueryParser" -> CommonParamsMixin_fields \o BBoxQueryParser_fields
      [] cls = "TermsQueryParser" -> CommonParamsMixin_fields \o TermsQueryParser_fields
      [] cls = "FacetParamsConfig" -> FacetParamsConfig_fields
      [] cls = "GroupParamsConfig" -> GroupParamsConfig_fields
      [] cls = "HighlightParamsConfig" -> HighlightParamsConfig_fields
      [] cls = "MoreLikeThisParamsConfig" -> MoreLikeThisParamsConfig_fields

\* The names of a sequence of fields.
Names(fields) == { fields[i].name : i \in 1..Len(fields) }

\* The key a field is serialized under with by_alias=True.
WireName(f) == IF f.alias = "" THEN f.name ELSE f.alias

\* model_fields_set: the fields given a value at construction.
fields_set(self) == self.fields_set

\* self.<name>: the value given at construction, else the field's default
\* (validation stores one or the other in the object).
GetAttr(self, name) == self.values[name]

\* dict(items): a Python dict built from <<key, value>> items; a later item
\* replaces an earlier one with the same key.
DictOf(items) ==
    [ key \in { items[i][1] : i \in 1..Len(items) } |->
        LET last == CHOOSE i \in 1..Len(items) :
                        /\ items[i][1] = key
                        /\ \A j \in (i+1)..Len(items) : items[j][1] # key
        IN  items[last][2] ]

\* d.update(u)
Update(d, u) ==
    [ key \in DOMAIN d \cup DOMAIN u |-> IF key \in DOMAIN u THEN u[key] ELSE d[key] ]

\* The empty dict.
EmptyDict == [ key \in {} |-> NoneV ]

\* ---------------------------------------------------------------------------
\* Field serializers.
\* ---------------------------------------------------------------------------

\* DisMaxQueryParser.serialize_boost_terms
serialize_boost_terms(values) ==
    IF values = NoneV THEN NoneV
    ELSE StrV(Join([i \in 1..Len(values.v) |->
                    values.v[i][1] \o "^" \o FloatStr(values.v[i][2])], " "))

\* SpatialSearchParamsMixin.serialize_point
serialize_point(values) ==
    StrV(Join([i \in 1..Len(values.v) |-> FloatStr(values.v[i])], ","))

\* BBoxQueryParser.serialize_envelope
serialize_envelope(values) ==
    StrV("ENVELOPE(" \o FloatStr(values.v[1]) \o ", " \o FloatStr(values.v[2]) \o ", "
        \o FloatStr(values.v[3]) \o ", " \o FloatStr(values.v[4]) \o ")")

\* The @field_serializer registered for a field of a class, applied to a value;
\* a field without one is dumped as it is.
SerializeField(cls, name, val) ==
    IF cls \in {"DisMaxQueryParser", "ExtendedDisMaxQueryParser"}
          /\ name \in {"query_fields", "phrase_fields"}
    THEN serialize_boost_terms(val)
    ELSE IF cls \in SpatialClasses /\ name = "center_point" THEN serialize_point(val)
    ELSE IF cls = "BBoxQueryParser" /\ name = "envelope" THEN serialize_envelope(val)
    ELSE val

\* ---------------------------------------------------------------------------
\* model_dump.
\* ---------------------------------------------------------------------------

\* The options of a model_dump call.
DumpOpts(exclude_none, exclude_unset, include, exclude) ==
    [ exclude_none |-> exclude_none, exclude_unset |-> exclude_unset,
      has_include |-> include # {}, include |-> include, exclude |-> exclude ]

\* A model_dump that ignores exclude_none: unset-to-None fields are kept.
DumpItems_keep_none(self, opts, fields) ==
    LET keep(f) ==
            /\ ~f.exclude
            /\ f.name \notin opts.exclude
            /\ (opts.has_include => f.name \in opts.include)
            /\ (opts.exclude_unset => f.name \in fields_set(self))
        kept == SelectSeq(fields, keep)
    IN  [ i \in 1..Len(kept) |->
            << WireName(kept[i]),
               SerializeField(self.cls, kept[i].name, GetAttr(self, kept[i].name)) >> ]

\* The <<key, value>> items of the fields that pass the filters of a dump, in
\* field order: the key is the alias (by_alias=True), the value goes through the
\* field's serializer.
DumpItems(self, opts, fields) ==
    LET keep(f) ==
            /\ ~f.exclude
            /\ f.name \notin opts.exclude
            /\ (opts.has_include => f.name \in opts.include)
            /\ (opts.exclude_unset => f.name \in fields_set(self))
            /\ (opts.exclude_none => GetAttr(self, f.name) # NoneV)
        kept == SelectSeq(fields, keep)
    IN  [ i \in 1..Len(kept) |->
            << WireName(kept[i]),
               SerializeField(self.cls, kept[i].name, GetAttr(self, kept[i].name)) >> ]

\* model_dump(by_alias=True, ...) restricted to the declared fields.
dump_fields(self, opts) == DumpItems(self, opts, ModelFields(self.cls))

\* ---------------------------------------------------------------------------
\* Computed fields.
\* ---------------------------------------------------------------------------

\* The "k=v" tokens of dumped items, a list value giving one token per element.
RECURSIVE ListTokens(_, _)
ListTokens(key, elems) ==
    IF Len(elems) = 0 THEN << >>
    ELSE << key \o "=" \o Head(elems) >> \o ListTokens(key, Tail(elems))

\* The loop of vector_search_params over params.items().
RECURSIVE VectorTokens(_)
VectorTokens(items) ==
    IF Len(items) = 0 THEN << >>
    ELSE LET key == Head(items)[1]
             val == Head(items)[2]
         IN  (IF val.k = "list" THEN ListTokens(key, val.v)
              ELSE << key \o "=" \o PyStr(val) >>)
             \o VectorTokens(Tail(items))

\* A vector_search_params whose dump keeps None values.
vector_search_params_keep_none(self) ==
    Join(VectorTokens(dump_fields(self,
            DumpOpts(FALSE, FALSE, Names(DenseVectorSearchParamsMixin_fields), {}))), " ")

\* DenseVectorSearchParamsMixin.vector_search_params
vector_search_params(self) ==
    Join(VectorTokens(dump_fields(self,
            DumpOpts(TRUE, FALSE, Names(DenseVectorSearchParamsMixin_fields), {}))), " ")

\* DenseVectorSearchParamsMixin.get_mixin_keys
DenseVectorSearchParamsMixin_get_mixin_keys ==
    {"vector_search_params"} \cup Names(DenseVectorSearchParamsMixin_fields)

\* The private attribute _def_type of the dense parsers.
def_type_of(cls) ==
    CASE cls = "KNNQueryParser" -> "knn"
      [] cls = "VectorSimilarityQueryParser" -> "vectorSimilarity"
      [] cls = "KNNTextToVectorQueryParser" -> "knn_text_to_vector"

\* KNNQueryParser.query
KNNQueryParser_query(self) ==
    "{!" \o def_type_of(self.cls) \o " topK=" \o PyStr(GetAttr(self, "top_k")) \o " "
        \o vector_search_params(self) \o "}" \o PyStr(GetAttr(self, "vector"))

\* VectorSimilarityQueryParser.query
VectorSimilarityQueryParser_query(self) ==
    "{!" \o def_type_of(self.cls) \o " minTraverse=" \o PyStr(GetAttr(self, "min_traverse"))
        \o " minReturn=" \o PyStr(GetAttr(self, "min_return")) \o " "
        \o vector_search_params(self) \o "}" \o PyStr(GetAttr(self, "vector"))

\* KNNTextToVectorQueryParser.query
KNNTextToVectorQueryParser_query(self) ==
    "{!" \o def_type_of(self.cls) \o " model=" \o PyStr(GetAttr(self, "model"))
        \o " topK=" \o PyStr(GetAttr(self, "top_k")) \o " "
        \o vector_search_params(self) \o "}" \o PyStr(GetAttr(self, "text"))

\* The loop of spatial_params over params.items().
RECURSIVE SpatialTokens(_)
SpatialTokens(items) ==
    IF Len(items) = 0 THEN << >>
    ELSE LET key == Head(items)[1]
             val == Head(items)[2]
         IN  << key \o "=" \o (IF val.k = "bool" THEN Lower(PyStr(val)) ELSE PyStr(val)) >>
             \o SpatialTokens(Tail(items))

\* A spatial_params that leaves sfield among the joined parameters.
spatial_params_keep_sfield(self) ==
    Join(SpatialTokens(dump_fields(self,
            DumpOpts(TRUE, FALSE, Names(SpatialSearchParamsMixin_fields), {}))), " ")

\* SpatialSearchParamsMixin.spatial_params
spatial_params(self) ==
    LET IsNotSfield(item) == item[1] # "sfield"
    IN  Join(SpatialTokens(SelectSeq(
                dump_fields(self,
                    DumpOpts(TRUE, FALSE, Names(SpatialSearchParamsMixin_fields), {})),
                IsNotSfield)), " ")

\* SpatialSearchParamsMixin.get_mixin_keys
SpatialSearchParamsMixin_get_mixin_keys ==
    {"spatial_params"} \cup Names(SpatialSearchParamsMixin_fields)

\* GeoFilterQueryParser.query
GeoFilterQueryParser_query(self) == "*:*"

\* The f-string of GeoFilterQueryParser.filter_query, given self.spatial_params.
FilterClause(self, params) ==
    "{!" \o PyStr(GetAttr(self, "filter_type")) \o " sfield="
        \o PyStr(GetAttr(self, "spatial_field"))
        \o (IF params # "" THEN " " \o params ELSE "") \o "}"

\* GeoFilterQueryParser.filter_query
GeoFilterQueryParser_filter_query(self) == FilterClause(self, spatial_params(self))

\* BBoxQueryParser.query
BBoxQueryParser_query(self) ==
    LET envelope_str == serialize_envelope(GetAttr(self, "envelope")).v
        score_param == IF Truthy(GetAttr(self, "score"))
                       THEN " score=" \o PyStr(GetAttr(self, "score")) ELSE ""
    IN  "{!field f=" \o PyStr(GetAttr(self, "bbox_field")) \o score_param \o "}"
            \o PyStr(GetAttr(self, "predicate")) \o "(" \o envelope_str \o ")"

\* A filter_query that returns its clause alone, whatever the filters.
TermsQueryParser_filter_query_overwrite(self) ==
    LET opts == << "f=" \o PyStr(GetAttr(self, "field")) >>
                \o (IF Truthy(GetAttr(self, "method"))
                    THEN << "method=" \o PyStr(GetAttr(self, "method")) >> ELSE << >>)
        fq == "{!terms " \o Join(opts, " ") \o "}"
                \o Join(GetAttr(self, "terms").v, PyStr(GetAttr(self, "separator")))
    IN  [value |-> StrV(fq), self |-> self]

\* A filter_query that appends its clause to self.filters in place.
TermsQueryParser_filter_query_in_place(self) ==
    LET opts == << "f=" \o PyStr(GetAttr(self, "field")) >>
                \o (IF Truthy(GetAttr(self, "method"))
                    THEN << "method=" \o PyStr(GetAttr(self, "method")) >> ELSE << >>)
        fq == "{!terms " \o Join(opts, " ") \o "}"
                \o Join(GetAttr(self, "terms").v, PyStr(GetAttr(self, "separator")))
        appended == ListV(GetAttr(self, "filters").v \o << fq >>)
    IN  IF Truthy(GetAttr(self, "filters"))
        THEN [value |-> appended,
              self |-> [self EXCEPT !.values = [@ EXCEPT !["filters"] = appended]]]
        ELSE [value |-> StrV(fq), self |-> self]

\* TermsQueryParser.filter_query: the returned value and the receiver after the
\* call (the caller's filters are copied into a new list, self.filters is not
\* touched).
TermsQueryParser_filter_query(self) ==
    LET opts == << "f=" \o PyStr(GetAttr(self, "field")) >>
                \o (IF Truthy(GetAttr(self, "method"))
                    THEN << "method=" \o PyStr(GetAttr(self, "method")) >> ELSE << >>)
        fq == "{!terms " \o Join(opts, " ") \o "}"
                \o Join(GetAttr(self, "terms").v, PyStr(GetAttr(self, "separator")))
    IN  IF Truthy(GetAttr(self, "filters"))
        THEN [value |-> ListV(GetAttr(self, "filters").v \o << fq >>), self |-> self]
        ELSE [value |-> StrV(fq), self |-> self]

\* DisMaxQueryParser.def_type / ExtendedDisMaxQueryParser.def_type
def_type(self) ==
    IF self.cls = "ExtendedDisMaxQueryParser" THEN "edismax" ELSE "dismax"

\* model_computed_fields of a class: <<name, alias>> in declaration order.
ComputedFields(cls) ==
    CASE cls \in {"DisMaxQueryParser", "ExtendedDisMaxQueryParser"} ->
            << <<"def_type", "defType">> >>
      [] cls \in DenseClasses ->
            << <<"vector_search_params", "vector_search_params">>, <<"query", "q">> >>
      [] cls = "GeoFilterQueryParser" ->
            << <<"spatial_params", "spatial_params">>, <<"query", "q">>,
               <<"filter_query", "fq">> >>
      [] cls = "BBoxQueryParser" -> << <<"query", "q">> >>
      [] cls = "TermsQueryParser" -> << <<"filter_query", "fq">> >>
      [] OTHER -> << >>

\* Evaluating the computed field <name> on self: its value and the receiver
\* after the call.
Computed(self, name) ==
    CASE name = "def_type" -> [value |-> StrV(def_type(self)), self |-> self]
      [] name = "vector_search_params" ->
            [value |-> StrV(vector_search_params(self)), self |-> self]
      [] name = "spatial_params" -> [value |-> StrV(spatial_params(self)), self |-> self]
      [] name = "query" /\ self.cls = "KNNQueryParser" ->
            [value |-> StrV(KNNQueryParser_query(self)), self |-> self]
      [] name = "query" /\ self.cls = "VectorSimilarityQueryParser" ->
            [value |-> StrV(VectorSimilarityQueryParser_query(self)), self |-> self]
      [] name = "query" /\ self.cls = "KNNTextToVectorQueryParser" ->
            [value |-> StrV(KNNTextToVectorQueryParser_query(self)), self |-> self]
      [] name = "query" /\ self.cls = "GeoFilterQueryParser" ->
            [value |-> StrV(GeoFilterQueryParser_query(self)), self |-> self]
      [] name = "query" /\ self.cls = "BBoxQueryParser" ->
            [value |-> StrV(BBoxQueryParser_query(self)), self |-> self]
      [] name = "filter_query" /\ self.cls = "GeoFilterQueryParser" ->
            [value |-> StrV(GeoFilterQueryParser_filter_query(self)), self |-> self]
      [] name = "filter_query" /\ self.cls = "TermsQueryParser" ->
            TermsQueryParser_filter_query(self)

\* The computed fields of a dump, evaluated one after the other: the items
\* they add and the receiver after the last one.
RECURSIVE dump_computed(_, _, _)

\* One computed field, evaluated to r, then the remaining ones.
ThenRest(opts, todo, r) ==
    LET rest == dump_computed(r.self, opts, Tail(todo))
    IN  [items |-> (IF opts.exclude_none /\ r.value = NoneV THEN << >>
                    ELSE << << Head(todo)[2], r.value >> >>) \o rest.items,
         self |-> rest.self]

dump_computed(self, opts, todo) ==
    IF Len(todo) = 0 THEN [items |-> << >>, self |-> self]
    ELSE IF Head(todo)[1] \in opts.exclude
              \/ (opts.has_include /\ Head(todo)[1] \notin opts.include)
         THEN dump_computed(self, opts, Tail(todo))
         ELSE ThenRest(opts, todo, Computed(self, Head(todo)[1]))

\* The dict of a dump: the items of the declared fields, then those of the
\* computed fields.
Dumped(items, c) == [dict |-> DictOf(items \o c.items), self |-> c.self]

\* BaseModel.model_dump(by_alias=True, ...): the dict and the receiver after
\* the call.
model_dump(self, opts) ==
    Dumped(dump_fields(self, opts), dump_computed(self, opts, ComputedFields(self.cls)))

\* ---------------------------------------------------------------------------
\* build().
\* ---------------------------------------------------------------------------

\* A loop body that keeps what earlier configs wrote: first writer wins.
UpdateWith_first_wins(updates, config) ==
    Update(Update([key \in {GetAttr(config, "enable_key").v} |-> BoolV(TRUE)],
                  DictOf(dump_fields(config, DumpOpts(TRUE, TRUE, {}, {})))),
           updates)

\* One round of the loop of serialize_configs: updates[config.enable_key] = True,
\* then updates.update(config.model_dump(exclude_none, exclude_unset, by_alias)).
UpdateWith(updates, config) ==
    Update(Update(updates, [key \in {GetAttr(config, "enable_key").v} |-> BoolV(TRUE)]),
           DictOf(dump_fields(config, DumpOpts(TRUE, TRUE, {}, {}))))

\* The loop of serialize_configs: the updates dict after the configs, in order.
RECURSIVE ConfigUpdates(_)
ConfigUpdates(configs) ==
    IF Len(configs) = 0 THEN EmptyDict
    ELSE UpdateWith(ConfigUpdates(SubSeq(configs, 1, Len(configs) - 1)),
                    configs[Len(configs)])

\* BaseQueryParser.serialize_configs
serialize_configs(self, params) == Update(params, ConfigUpdates(self.configs))

\* return self.serialize_configs(params), for the dump d of self: the returned
\* params and the receiver after the call.
WithConfigs(d) == [params |-> serialize_configs(d.self, d.dict), self |-> d.self]

\* BaseQueryParser.build
BaseQueryParser_build(self) ==
    WithConfigs(model_dump(self, DumpOpts(TRUE, TRUE, {}, {"configs"})))

\* DenseVectorSearchQueryParser.build
DenseVectorSearchQueryParser_build(self) ==
    WithConfigs(model_dump(self, DumpOpts(TRUE, TRUE, {},
                    {"configs"} \cup DenseVectorSearchParamsMixin_get_mixin_keys)))

\* SpatialQueryParser.build
SpatialQueryParser_build(self) ==
    WithConfigs(model_dump(self, DumpOpts(TRUE, TRUE, {},
                    {"configs"} \cup SpatialSearchParamsMixin_get_mixin_keys)))

\* params.setdefault("q", self.query), for r the outcome of super().build().
SetDefaultQ(r) ==
    [params |-> Update([key \in {"q"} |-> GetAttr(r.self, "query")], r.params),
     self |-> r.self]

\* TermsQueryParser.build
TermsQueryParser_build(self) == SetDefaultQ(BaseQueryParser_build(self))

\* self.build(), dispatched on the class of self.
build(self) ==
    CASE self.cls \in DenseClasses -> DenseVectorSearchQueryParser_build(self)
      [] self.cls \in SpatialClasses -> SpatialQueryParser_build(self)
      [] self.cls = "TermsQueryParser" -> TermsQueryParser_build(self)
      [] OTHER -> BaseQueryParser_build(self)

\* ---------------------------------------------------------------------------
\* Construction.
\* ---------------------------------------------------------------------------

\* extra="forbid" of BaseQueryParser: the keyword arguments that name no field
\* (fields are populated by name only).  ParamsConfig leaves extra at "ignore".
ExtraForbidden(cls, kwargs) ==
    IF cls \in ParserClasses
    THEN DOMAIN kwargs \ (Names(ModelFields(cls)) \cup {"configs"})
    ELSE {}

\* A validation that lets a call leave required fields out.
MissingAmong_unchecked(fields, kwargs) == {}

\* The required fields (Field(...)) among fields that the keyword arguments
\* leave out.
MissingAmong(fields, kwargs) ==
    { fields[i].name : i \in { j \in 1..Len(fields) : fields[j].default = Required } }
        \ DOMAIN kwargs

\* The required fields of a class that the keyword arguments leave out.
MissingRequired(cls, kwargs) == MissingAmong(ModelFields(cls), kwargs)

\* cls(**kwargs) raises ValidationError.
Invalid(cls, kwargs) ==
    ExtraForbidden(cls, kwargs) # {} \/ MissingRequired(cls, kwargs) # {}

\* The object a valid call yields: every field holds the call's value or
\* its default, and the fields the call names are the fields set.
Validated(cls, fields, kwargs, configs) ==
    [ cls |-> cls,
      values |-> [ name \in Names(fields) |->
                     IF name \in DOMAIN kwargs THEN kwargs[name]
                     ELSE fields[CHOOSE i \in 1..Len(fields) : fields[i].name = name].default ],
      fields_set |-> DOMAIN kwargs \cap Names(fields),
      configs |-> configs ]

\* cls(configs=configs, **kwargs), for a valid call.
New(cls, kwargs, configs) == Validated(cls, ModelFields(cls), kwargs, configs)

\* The defaults of the keyword parameters of BaseQueryParser.facet, highlight
\* and more_like_this: one parameter per field of the config class, each None.
NoneDefaults(fields) == [name \in Names(fields) \ {"enable_key"} |-> NoneV]

\* The defaults of the keyword parameters of BaseQueryParser.group.
group_defaults ==
    [ by |-> NoneV, func |-> NoneV, query |-> NoneV, limit |-> IntV(1), offset |-> NoneV,
      sort |-> NoneV, format |-> StrV("grouped"), main |-> NoneV, ngroups |-> BoolV(FALSE),
      truncate |-> BoolV(FALSE), facet |-> BoolV(FALSE), cache_percent |-> IntV(0) ]

\* The config a chained method constructs: every parameter of the method is
\* passed on to the config class, the caller's value or the parameter's default.
ChainedConfig(cls, fields, defaults, kwargs) ==
    Validated(cls, fields,
              [name \in DOMAIN defaults |->
                  IF name \in DOMAIN kwargs THEN kwargs[name] ELSE defaults[name]],
              << >>)

\* An attachment that replaces the earlier sub-configs of the same class.
AppendConfig_replace_same_kind(self, config) ==
    [self EXCEPT !.configs =
        Append(SelectSeq(@, LAMBDA earlier : earlier.cls # config.cls), config)]

\* self.configs.append(config); return self
AppendConfig(self, config) == [self EXCEPT !.configs = Append(@, config)]

\* BaseQueryParser.facet: the receiver after the call (the method returns self).
BaseQueryParser_facet(self, kwargs) ==
    AppendConfig(self, ChainedConfig("FacetParamsConfig", FacetParamsConfig_fields,
                                     NoneDefaults(FacetParamsConfig_fields), kwargs))

\* BaseQueryParser.group
BaseQueryParser_group(self, kwargs) ==
    AppendConfig(self, ChainedConfig("GroupParamsConfig", GroupParamsConfig_fields,
                                     group_defaults, kwargs))

\* BaseQueryParser.highlight
BaseQueryParser_highlight(self, kwargs) ==
    AppendConfig(self, ChainedConfig("HighlightParamsConfig", HighlightParamsConfig_fields,
                                     NoneDefaults(HighlightParamsConfig_fields), kwargs))

\* BaseQueryParser.more_like_this
BaseQueryParser_more_like_this(self, kwargs) ==
    AppendConfig(self, ChainedConfig("MoreLikeThisParamsConfig",
                                     MoreLikeThisParamsConfig_fields,
                                     NoneDefaults(MoreLikeThisParamsConfig_fields), kwargs))

\* ---------------------------------------------------------------------------
\* State.
\* ---------------------------------------------------------------------------

VARIABLES
    parser,     \* the parser object the caller holds, NoParser before construction
    error,      \* the exception the constructor call raised, "" if none
    result,     \* the dict the last build() returned
    builds,     \* number of build() calls since the last construction or attachment
    call,       \* the constructor call as the caller wrote it
    given,      \* per attached sub-config, the field names the caller wrote
    client,     \* the client object the caller holds, NoClient when it holds none
    requests,   \* the HTTP requests handed to the transport so far, in order
    op,         \* the last call made on the client or on the response decoder
    raised,     \* the exception that call raised, "" if it returned
    returned,   \* the value that call returned, Nothing if it raised
    peer        \* a second, separately constructed parser object, NoParser before

vars == << parser, error, result, builds, call, given,
           client, requests, op, raised, returned, peer >>

\* No client object.
NoClient == [cls |-> "None", collection |-> NoneV]

\* No call on a client or on the decoder yet.
NoOp == [name |-> "None"]

\* No value returned.
Nothing == [k |-> "nothing", v |-> "..."]

\* No parser object.
NoParser == [cls |-> "None", values |-> << >>, fields_set |-> {}, configs |-> << >>]

\* No constructor call yet.
NoCall == [cls |-> "None", kwargs |-> << >>, configs |-> << >>]

\* ---------------------------------------------------------------------------
\* The calls the caller makes.
\* ---------------------------------------------------------------------------

\* No keyword arguments.
NoKw == << >>

\* Either leave <name> out, or pass one of vals.
Opt(name, vals) == {NoKw} \cup { name :> val : val \in vals }

\* Every way to take one keyword set from A and one from B.
Both(A, B) == { a @@ b : a \in A, b \in B }

\* The lists over an alphabet, up to MaxListLen long.
Lists(alphabet) == UNION { [1..n -> alphabet] : n \in 0..MaxListLen }

\* The weighted-field maps over some field names: lists of <<field, weight>>
\* with distinct fields.
Maps(fieldNames, weights) ==
    { m \in Lists(fieldNames \X weights) :
        \A i, j \in 1..Len(m) : i # j => m[i][1] # m[j][1] }

\* A value for every required field of a class.
RequiredKw(cls) ==
    CASE cls = "StandardParser" -> [query |-> StrV("laptop")]
      [] cls \in {"DisMaxQueryParser", "ExtendedDisMaxQueryParser"} -> NoKw
      [] cls \in {"KNNQueryParser", "VectorSimilarityQueryParser"} ->
            [field |-> StrV("v"), vector |-> FloatsV(<<10, 25>>)]
      [] cls = "KNNTextToVectorQueryParser" -> [field |-> StrV("v"), text |-> StrV("red shoes")]
      [] cls = "GeoFilterQueryParser" ->
            [spatial_field |-> StrV("store"), center_point |-> FloatsV(<<451, 938>>),
             radial_distance |-> FloatV(50)]
      [] cls = "BBoxQueryParser" ->
            [bbox_field |-> StrV("zone"), envelope |-> FloatsV(<<10, 20, 40, 30>>)]
      [] cls = "TermsQueryParser" -> [field |-> StrV("tags"), terms |-> ListV(<<"a", "b">>)]

\* RequiredKw with at most one of the required arguments left out.
RequiredOrOneMissing(cls) ==
    LET kw == RequiredKw(cls)
    IN  {kw} \cup { [name \in DOMAIN kw \ {gone} |-> kw[name]] : gone \in DOMAIN kw }

\* Sub-config objects the caller constructs directly.
FacetA == New("FacetParamsConfig", [fields |-> ListV(<<"category">>), limit |-> IntV(10)], << >>)
FacetB == New("FacetParamsConfig", [limit |-> IntV(20), mincount |-> NoneV], << >>)
GroupA == New("GroupParamsConfig", [by |-> StrV("brand")], << >>)
HighlightA == New("HighlightParamsConfig", [fields |-> ListV(<<"title">>)], << >>)

\* The sub-configs passed in a constructor's configs list.
ConfigPool == { FacetA, FacetB }

\* The configs lists passed to a constructor; they leave room for one chained
\* call.
ConfigLists == UNION { [1..n -> ConfigPool] : n \in 0..(MaxConfigs - 1) }

\* Keyword arguments common to every parser (or refused by every parser): a
\* common field set to a value or to None, or a sub-config passed by attribute
\* name.
CommonKw ==
    { NoKw, [rows |-> IntV(50)], [rows |-> NoneV, filters |-> ListV(<<"x:1">>)],
      [group |-> ConfigV(GroupA)], [facet |-> ConfigV(FacetA)] }

\* The constructor calls of the composition lifecycle.
ComposeCalls ==
    UNION { { [cls |-> cls, kwargs |-> kw, configs |-> cfgs] :
                kw \in Both(RequiredOrOneMissing(cls), CommonKw), cfgs \in ConfigLists } :
            cls \in ParserClasses }

\* The keyword arguments of the chained calls.
FacetKw == { [limit |-> IntV(30)], [fields |-> ListV(<<"brand">>), limit |-> NoneV] }
GroupKw == { [by |-> StrV("author")], [by |-> StrV("author"), limit |-> IntV(5)] }
HighlightKw == { [fields |-> ListV(<<"title">>)] }
MoreLikeThisKw == { [fields |-> ListV(<<"content">>), min_term_freq |-> IntV(2)] }

\* ---------------------------------------------------------------------------
\* Operations.
\* ---------------------------------------------------------------------------

Init ==
    /\ parser = NoParser
    /\ error = ""
    /\ result = EmptyDict
    /\ builds = 0
    /\ call = NoCall
    /\ given = << >>
    /\ client = NoClient
    /\ requests = << >>
    /\ op = NoOp
    /\ raised = ""
    /\ returned = Nothing
    /\ peer = NoParser

\* parser = Cls(configs=[...], **kwargs), for a call c out of a set of calls:
\* validation either raises, and the caller holds no parser, or yields the
\* parser object.
ConstructFrom(calls) ==
    /\ call = NoCall
    /\ \E c \in calls :
        /\ call' = c
        /\ IF Invalid(c.cls, c.kwargs)
           THEN /\ error' = "ValidationError"
                /\ parser' = NoParser
                /\ given' = << >>
           ELSE /\ error' = ""
                /\ parser' = New(c.cls, c.kwargs, c.configs)
                /\ given' = [i \in 1..Len(c.configs) |-> fields_set(c.configs[i])]
        /\ UNCHANGED << result, builds >>
        /\ UNCHANGED << client, requests, op, raised, returned, peer >>

\* A constructor call of the composition lifecycle.
Construct == ConstructFrom(ComposeCalls)

\* A chained call whose append lands in one configs list that every instance
\* holds, as a class-level default list used as it is would be.
Chained_shared_default(after, kwargs) ==
    /\ parser # NoParser
    /\ Len(parser.configs) < MaxConfigs
    /\ parser' = after
    /\ peer' = IF peer = NoParser THEN peer
               ELSE AppendConfig(peer, after.configs[Len(after.configs)])
    /\ given' = Append(given, DOMAIN kwargs)
    /\ builds' = 0
    /\ UNCHANGED << error, result, call >>
    /\ UNCHANGED << client, requests, op, raised, returned >>

\* A chained call parser.<method>(**kwargs) that appends a sub-config to the
\* configs list of the receiver; no other instance holds that list.
Chained(after, kwargs) ==
    /\ parser # NoParser
    /\ Len(parser.configs) < MaxConfigs
    /\ parser' = after
    /\ given' = Append(given, DOMAIN kwargs)
    /\ builds' = 0
    /\ UNCHANGED << error, result, call >>
    /\ UNCHANGED << client, requests, op, raised, returned, peer >>

\* parser.facet(**kwargs)
Facet == \E kwargs \in FacetKw : Chained(BaseQueryParser_facet(parser, kwargs), kwargs)

\* parser.group(**kwargs)
Group == \E kwargs \in GroupKw : Chained(BaseQueryParser_group(parser, kwargs), kwargs)

\* parser.highlight(**kwargs)
Highlight ==
    \E kwargs \in HighlightKw : Chained(BaseQueryParser_highlight(parser, kwargs), kwargs)

\* parser.more_like_this(**kwargs)
MoreLikeThis ==
    \E kwargs \in MoreLikeThisKw :
        Chained(BaseQueryParser_more_like_this(parser, kwargs), kwargs)

\* build() returned r: the caller holds r.params, the parser is as build left it.
Returned(r) == result' = r.params /\ parser' = r.self

\* result = parser.build()
Build ==
    /\ parser # NoParser
    /\ builds < MaxBuilds
    /\ Returned(build(parser))
    /\ builds' = builds + 1
    /\ UNCHANGED << error, call, given >>
    /\ UNCHANGED << client, requests, op, raised, returned, peer >>

Next == Construct \/ Facet \/ Group \/ Highlight \/ MoreLikeThis \/ Build

Spec == Init /\ [][Next]_vars

\* A state in which build() has returned.
Built == parser # NoParser /\ builds >= 1

\* ---------------------------------------------------------------------------
\* The variants on their own: constructor calls that exercise the fields
\* each variant embeds in its q / fq clause.
\* ---------------------------------------------------------------------------

\* Every way to take one keyword set from each set of a sequence of sets.
RECURSIVE AllOf(_)
AllOf(sets) == IF Len(sets) = 0 THEN {NoKw} ELSE Both(Head(sets), AllOf(Tail(sets)))

\* The list values over an alphabet.
ListValues(alphabet) == { ListV(l) : l \in Lists(alphabet) }

\* Keyword arguments of KNNQueryParser.
KNNKw ==
    AllOf(<< {[field |-> StrV("v")]},
             {[vector |-> FloatsV(<<10, 25>>)], [vector |-> FloatsV(<<5>>)]},
             Opt("top_k", {IntV(5), NoneV}),
             Opt("pre_filter", ListValues({"inStock:true", "cat:a"})),
             Opt("include_tags", ListValues({"t1"})),
             Opt("exclude_tags", ListValues({"t2"})) >>)

\* Keyword arguments of VectorSimilarityQueryParser.
VectorSimilarityKw ==
    AllOf(<< {RequiredKw("VectorSimilarityQueryParser")},
             Opt("min_traverse", {FloatV(2), NoneV}),
             Opt("min_return", {FloatV(7)}) >>)

\* Keyword arguments of KNNTextToVectorQueryParser.
KNNTextToVectorKw ==
    AllOf(<< {RequiredKw("KNNTextToVectorQueryParser")},
             Opt("model", {StrV("emb"), NoneV}),
             Opt("top_k", {IntV(5)}) >>)

\* Keyword arguments of TermsQueryParser.
TermsKw ==
    AllOf(<< {[field |-> StrV("tags")]},
             { [terms |-> t] : t \in ListValues({"a", "b"}) },
             Opt("separator", {StrV(","), StrV(" ")}),
             Opt("method", {StrV("automaton"), NoneV}),
             Opt("filters", {NoneV, ListV(<<"x:1", "y:2">>)} \cup ListValues({"x:1"})),
             Opt("query", {StrV("foo")}) >>)

\* Keyword arguments of GeoFilterQueryParser.
GeoFilterKw ==
    AllOf(<< {RequiredKw("GeoFilterQueryParser")},
             Opt("score", {StrV("kilometers"), NoneV}),
             Opt("filter", {BoolV(TRUE), BoolV(FALSE), NoneV}),
             Opt("cache", {BoolV(TRUE), BoolV(FALSE), NoneV}),
             Opt("filter_type", {StrV("geofilt"), StrV("bbox")}),
             Opt("filters", {ListV(<<"x:1">>)}) >>)

\* Keyword arguments of BBoxQueryParser.
BBoxKw ==
    AllOf(<< {RequiredKw("BBoxQueryParser")},
             Opt("predicate", {StrV("Within")}),
             Opt("score", {StrV("area"), NoneV}) >>)

\* Keyword arguments of StandardParser.
StandardKw ==
    AllOf(<< {RequiredKw("StandardParser")},
             Opt("query_operator", {StrV("AND")}),
             Opt("sort", {StrV("price asc")}) >>)

\* Keyword arguments of DisMaxQueryParser.
DisMaxKw ==
    AllOf(<< Opt("query", {StrV("ipod")}),
             Opt("query_fields",
                 {NoneV} \cup { MapV(m) : m \in Maps({"title", "body"}, {20, 5}) }),
             Opt("phrase_fields", {MapV(<< <<"title", 30>> >>)}),
             Opt("tie_breaker", {FloatV(1)}) >>)

\* Keyword arguments of ExtendedDisMaxQueryParser.
ExtendedDisMaxKw ==
    AllOf(<< {[query |-> StrV("ipod")]},
             Opt("query_fields", {MapV(<< <<"title", 20>>, <<"body", 5>> >>)}),
             Opt("phrase_fields", {MapV(<< <<"title", 30>> >>)}),
             Opt("phrase_fields_bigram", {MapV(<< <<"title", 20>> >>), NoneV}),
             Opt("phrase_fields_trigram", {MapV(<< <<"title", 10>>, <<"body", 5>> >>)}) >>)

\* The keyword arguments exercised for a class.
VariantKw(cls) ==
    CASE cls = "StandardParser" -> StandardKw
      [] cls = "DisMaxQueryParser" -> DisMaxKw
      [] cls = "ExtendedDisMaxQueryParser" -> ExtendedDisMaxKw
      [] cls = "KNNQueryParser" -> KNNKw
      [] cls = "VectorSimilarityQueryParser" -> VectorSimilarityKw
      [] cls = "KNNTextToVectorQueryParser" -> KNNTextToVectorKw
      [] cls = "GeoFilterQueryParser" -> GeoFilterKw
      [] cls = "BBoxQueryParser" -> BBoxKw
      [] cls = "TermsQueryParser" -> TermsKw

\* The constructor calls of the variants, with no sub-config or one.
VariantCalls ==
    UNION { { [cls |-> cls, kwargs |-> kw, configs |-> cfgs] :
                kw \in VariantKw(cls), cfgs \in { << >>, << HighlightA >> } } :
            cls \in ParserClasses }

\* A constructor call of one of the variants.
ConstructVariant == ConstructFrom(VariantCalls)

NextVariant == ConstructVariant \/ Build

\* Construct one variant, then build it.
SpecVariant == Init /\ [][NextVariant]_vars

\* ---------------------------------------------------------------------------
\* JSON payloads: the values of a decoded response body.  Strings, numbers,
\* booleans and None are the values above; a list holds values.
\* ---------------------------------------------------------------------------

\* dict: its <<key, value>> items in insertion order, keys distinct.
DictV(items) == [k |-> "dict", v |-> items]

\* isinstance(val, dict)
IsDict(val) == val.k = "dict"

\* `key in d` that never finds the key.
Has_never(d, key) == FALSE

\* key in d
Has(d, key) == \E i \in 1..Len(d.v) : d.v[i][1] = key

\* d[key], for a key of d
Item(d, key) == d.v[CHOOSE i \in 1..Len(d.v) : d.v[i][1] = key][2]

\* d.get(key, default) that never finds the key.
Get_default(d, key, default) == default

\* d.get(key, default)
Get(d, key, default) == IF Has(d, key) THEN Item(d, key) ELSE default

\* _coerce_int(value); a string is tried as a numeral, and the numerals that
\* occur here are the single digits.
coerce_int(value) ==
    CASE value.k = "bool" -> IF value.v THEN 1 ELSE 0
      [] value.k = "int" -> value.v
      [] value.k = "float" -> value.v \div 10
      [] value.k = "str" ->
            IF value.v \in {"0", "1", "2", "3", "4", "5", "6", "7", "8", "9"}
            THEN CHOOSE n \in 0..9 : ToString(n) = value.v
            ELSE 0
      [] OTHER -> 0

\* ---------------------------------------------------------------------------
\* The response decoder.
\* ---------------------------------------------------------------------------

\* document_model.model_validate(doc, by_name=True) raises ValidationError, and
\* so does the retry with by_alias=True: the caller's document type requires
\* the field id and declares no alias.
FailsValidation(doc) == ~(IsDict(doc) /\ Has(doc, "id"))

\* The loop "for doc in raw: docs.append(document_model.model_validate(doc))":
\* the exception it raises, and the documents parsed.
Documents(raw) ==
    CASE raw.k = "list" ->
            [raised |-> IF \E i \in 1..Len(raw.v) : FailsValidation(raw.v[i])
                        THEN "ValidationError" ELSE "",
             docs |-> raw.v]
      [] IsDict(raw) ->
            [raised |-> IF Len(raw.v) > 0 THEN "ValidationError" ELSE "", docs |-> << >>]
      [] OTHER -> [raised |-> "TypeError", docs |-> << >>]

\* The locals of _build_search_response after the branch on the shape of the
\* response: docs, num_found, start and grouping_result, or the exception the
\* branch raised.
Locals(docs, num_found, start, grouping) ==
    [raised |-> "", docs |-> docs, num_found |-> num_found, start |-> start,
     grouping |-> grouping]

\* The branch for a top-level "response": resp is response["response"].
StandardBranch(resp) ==
    IF ~IsDict(resp) THEN [Locals(<< >>, IntV(0), IntV(0), NoneV) EXCEPT !.raised = "TypeError"]
    ELSE IF ~Has(resp, "docs") THEN [Locals(<< >>, IntV(0), IntV(0), NoneV) EXCEPT !.raised = "KeyError"]
    ELSE LET parsed == Documents(Item(resp, "docs"))
         IN  IF parsed.raised # "" THEN [Locals(<< >>, IntV(0), IntV(0), NoneV) EXCEPT !.raised = parsed.raised]
             ELSE IF ~Has(resp, "numFound") \/ ~Has(resp, "start") THEN [Locals(<< >>, IntV(0), IntV(0), NoneV) EXCEPT !.raised = "KeyError"]
             ELSE Locals(parsed.docs, Item(resp, "numFound"), Item(resp, "start"), NoneV)

\* SolrGroup(group_value=g.get("groupValue"), doclist=doclist,
\* group_offset=g.get("groupOffset")): the model populates group_value by its
\* alias groupValue only, so the keyword group_value is ignored.
SolrGroup(g, doclist) ==
    [group_value |-> NoneV, doclist |-> doclist, group_offset |-> Get(g, "groupOffset", NoneV)]

\* A doclist whose documents are parsed but whose numFound is not added.
Doclist_uncounted(acc, doclist) ==
    IF ~IsDict(doclist) THEN [acc EXCEPT !.raised = "AttributeError"]
    ELSE [acc EXCEPT !.docs = @ \o Documents(Get(doclist, "docs", ListV(<< >>))).docs]

\* The documents of one doclist are parsed into docs, then
\* num_found += int(doclist.get("numFound", 0)).
Doclist(acc, doclist) ==
    IF ~IsDict(doclist) THEN [acc EXCEPT !.raised = "AttributeError"]
    ELSE LET parsed == Documents(Get(doclist, "docs", ListV(<< >>)))
             numFound == Get(doclist, "numFound", IntV(0))
         IN  IF parsed.raised # "" THEN [acc EXCEPT !.raised = parsed.raised]
             ELSE IF numFound.k # "int" THEN [acc EXCEPT !.raised = "TypeError"]
             ELSE [acc EXCEPT !.docs = @ \o parsed.docs, !.num_found = @ + numFound.v]

\* The loop "for g in grouped_data.get("groups", [])".
RECURSIVE Groups(_, _)
Groups(acc, gs) ==
    IF Len(gs) = 0 \/ acc.raised # "" THEN acc
    ELSE IF ~IsDict(Head(gs)) THEN [acc EXCEPT !.raised = "AttributeError"]
    ELSE LET doclist == Get(Head(gs), "doclist", DictV(<< >>))
             counted == Doclist(acc, doclist)
         IN  Groups(IF counted.raised # "" THEN counted
                    ELSE [counted EXCEPT !.groups = Append(@, SolrGroup(Head(gs), doclist))],
                    Tail(gs))

\* grouped_fields[group_field] = SolrGroupedField(matches=grouped_data.get(
\* "matches", 0), groups=..., doclist=..., ngroups=..., facet=...); matches
\* must be an int.
SolrGroupedField(acc, group_field, grouped_data, groups, doclist) ==
    IF acc.raised # "" THEN acc
    ELSE IF Get(grouped_data, "matches", IntV(0)).k # "int"
    THEN [acc EXCEPT !.raised = "ValidationError"]
    ELSE [acc EXCEPT !.grouped_fields =
            Append(@, << group_field,
                         [matches |-> Get(grouped_data, "matches", IntV(0)),
                          groups |-> groups,
                          doclist |-> doclist,
                          ngroups |-> Get(grouped_data, "ngroups", NoneV),
                          facet |-> Get(grouped_data, "facet", NoneV)] >>)]

\* The loop "for group_field, grouped_data in response["grouped"].items()".
\* The tests "groups" in grouped_data and "doclist" in grouped_data raise on a
\* number or None, and find nothing in a list without those strings.
RECURSIVE GroupedFields(_, _)
GroupedFields(acc, items) ==
    IF Len(items) = 0 \/ acc.raised # "" THEN acc
    ELSE LET group_field == Head(items)[1]
             grouped_data == Head(items)[2]
             groups == Item(grouped_data, "groups")
             looped == IF groups.k = "list"
                       THEN Groups([acc EXCEPT !.groups = << >>], groups.v)
                       ELSE [acc EXCEPT !.raised = "TypeError"]
         IN  GroupedFields(
                 IF grouped_data.k = "list"
                 THEN IF \E i \in 1..Len(grouped_data.v) :
                            grouped_data.v[i] \in {StrV("groups"), StrV("doclist")}
                      THEN [acc EXCEPT !.raised = "AttributeError"] ELSE acc
                 ELSE IF ~IsDict(grouped_data) THEN [acc EXCEPT !.raised = "TypeError"]
                 ELSE IF Has(grouped_data, "groups")
                 THEN SolrGroupedField(looped, group_field, grouped_data,
                                       ListV(looped.groups), NoneV)
                 ELSE IF Has(grouped_data, "doclist")
                 THEN SolrGroupedField(Doclist(acc, Item(grouped_data, "doclist")), group_field,
                                       grouped_data, NoneV, Item(grouped_data, "doclist"))
                 ELSE acc,
                 Tail(items))

\* The branch for a top-level "grouped": the loop, then grouping_result =
\* SolrGroupingResult(grouped=grouped_fields, group_sort=response.get(
\* "group.sort"), ...) and start = 0.
GroupedBranch(response, grouped) ==
    IF ~IsDict(grouped) THEN [Locals(<< >>, IntV(0), IntV(0), NoneV) EXCEPT !.raised = "AttributeError"]
    ELSE LET acc == GroupedFields([raised |-> "", docs |-> << >>, num_found |-> 0,
                                   groups |-> << >>, grouped_fields |-> << >>], grouped.v)
         IN  IF acc.raised # "" THEN [Locals(<< >>, IntV(0), IntV(0), NoneV) EXCEPT !.raised = acc.raised]
             ELSE Locals(acc.docs, IntV(acc.num_found), IntV(0),
                         [grouped |-> DictV(acc.grouped_fields),
                          group_sort |-> Get(response, "group.sort", NoneV),
                          group_limit |-> Get(response, "group.limit", NoneV),
                          group_offset |-> Get(response, "group.offset", NoneV),
                          group_format |-> Get(response, "group.format", NoneV),
                          distributed_caveats |-> Get(response, "distributed_caveats", NoneV)])

\* The loop "for doc_id, payload in raw_more_like_this.items()" into
\* acc.more_like_this; a SolrMoreLikeThisResult takes an int for num_found and
\* a list, a dict or None for interesting_terms.
RECURSIVE MoreLikeThisResults(_, _, _)
MoreLikeThisResults(acc, items, raw_interesting_terms) ==
    IF Len(items) = 0 \/ acc.raised # "" THEN acc
    ELSE IF ~IsDict(Head(items)[2]) THEN MoreLikeThisResults(acc, Tail(items), raw_interesting_terms)
    ELSE LET doc_id == Head(items)[1]
             payload == Head(items)[2]
             payload_docs == IF Truthy(Get(payload, "docs", ListV(<< >>)))
                             THEN Get(payload, "docs", ListV(<< >>)) ELSE ListV(<< >>)
             parsed_docs == Documents(payload_docs)
             doc_interesting_terms ==
                 IF IsDict(raw_interesting_terms) THEN Get(raw_interesting_terms, doc_id, NoneV)
                 ELSE raw_interesting_terms
         IN  MoreLikeThisResults(
                 IF parsed_docs.raised # "" THEN [acc EXCEPT !.raised = parsed_docs.raised]
                 ELSE IF \/ Get(payload, "numFound", IntV(0)).k # "int"
                         \/ doc_interesting_terms.k \notin {"none", "list", "dict"}
                 THEN [acc EXCEPT !.raised = "ValidationError"]
                 ELSE [acc EXCEPT !.more_like_this =
                         Append(@, << doc_id,
                                      [num_found |-> Get(payload, "numFound", IntV(0)),
                                       start |-> Get(payload, "start", IntV(0)),
                                       num_found_exact |-> Get(payload, "numFoundExact", NoneV),
                                       docs |-> parsed_docs.docs,
                                       interesting_terms |-> doc_interesting_terms] >>)],
                 Tail(items), raw_interesting_terms)

\* SolrFacetFieldValue(value=value, count=count, extra=extra)
SolrFacetFieldValue(value, count, extra) == [value |-> value, count |-> count, extra |-> extra]

\* SolrFacetResult._parse_field_facet(raw_field)
parse_field_facet(raw_field) ==
    CASE raw_field.k = "list" ->
            LET raw == raw_field.v
                entries == SelectSeq(raw, LAMBDA entry : entry.k = "list" /\ Len(entry.v) > 0)
            IN  [buckets |->
                    IF Len(raw) > 0 /\ raw[1].k = "list"
                    THEN [i \in 1..Len(entries) |->
                            SolrFacetFieldValue(
                                entries[i].v[1],
                                IF Len(entries[i].v) > 1 THEN coerce_int(entries[i].v[2]) ELSE 0,
                                IF Len(entries[i].v) > 2 /\ IsDict(entries[i].v[3])
                                THEN entries[i].v[3] ELSE DictV(<< >>))]
                    ELSE [i \in 1..((Len(raw) + 1) \div 2) |->
                            SolrFacetFieldValue(
                                raw[2 * i - 1],
                                IF 2 * i <= Len(raw) THEN coerce_int(raw[2 * i]) ELSE 0,
                                DictV(<< >>))],
                 missing |-> NoneV, num_buckets |-> NoneV, metadata |-> DictV(<< >>)]
      [] IsDict(raw_field) ->
            LET counted == SelectSeq(raw_field.v,
                                     LAMBDA item : item[1] \notin {"missing", "numBuckets"})
            IN  [buckets |->
                    [i \in 1..Len(counted) |->
                        IF IsDict(counted[i][2])
                        THEN SolrFacetFieldValue(
                                 StrV(counted[i][1]),
                                 coerce_int(Get(counted[i][2], "count", NoneV)),
                                 DictV(SelectSeq(counted[i][2].v, LAMBDA item : item[1] # "count")))
                        ELSE SolrFacetFieldValue(StrV(counted[i][1]), coerce_int(counted[i][2]),
                                                 DictV(<< >>))],
                 missing |-> IF Has(raw_field, "missing")
                             THEN IntV(coerce_int(Item(raw_field, "missing"))) ELSE NoneV,
                 num_buckets |-> IF Has(raw_field, "numBuckets")
                                 THEN IntV(coerce_int(Item(raw_field, "numBuckets"))) ELSE NoneV,
                 metadata |-> DictV(<< >>)]
      [] OTHER ->
            [buckets |-> << >>, missing |-> NoneV, num_buckets |-> NoneV,
             metadata |-> DictV(<< << "raw", raw_field >> >>)]

\* SolrJsonFacetNode.from_dict(data): the exception it raises, or the node.
\* The loop over the items of a bucket and the loop over the items of the node
\* have one body (classified): a key among the own ones is skipped, a dict
\* value with "buckets" or "count" is decoded as a child node, any other value
\* is a metric.  The fields count and missing of the node take an int or None
\* (a bool, a whole float or a numeral is converted), anything else fails
\* validation; the count of a bucket goes through _coerce_int.
RECURSIVE from_dict(_)
from_dict(data) ==
    LET is_facet(value) == IsDict(value) /\ (Has(value, "buckets") \/ Has(value, "count"))
        classified(items, own) ==
            LET rest == SelectSeq(items, LAMBDA item : item[1] \notin own)
                nested == SelectSeq(rest, LAMBDA item : is_facet(item[2]))
                children == [i \in 1..Len(nested) |-> from_dict(nested[i][2])]
            IN  [raised |-> \E i \in 1..Len(children) : children[i].raised # "",
                 metrics |-> DictV(SelectSeq(rest, LAMBDA item : ~is_facet(item[2]))),
                 facets |-> DictV([i \in 1..Len(nested) |->
                                      << nested[i][1], children[i].value >>])]
        raw_buckets == Get(data, "buckets", NoneV)
        dicts == IF raw_buckets.k = "list" THEN SelectSeq(raw_buckets.v, IsDict) ELSE << >>
        inner == [i \in 1..Len(dicts) |-> classified(dicts[i].v, {"val", "count"})]
        buckets == [i \in 1..Len(dicts) |->
                      [value |-> Get(dicts[i], "val", NoneV),
                       count |-> IntV(coerce_int(Get(dicts[i], "count", NoneV))),
                       metrics |-> inner[i].metrics,
                       facets |-> inner[i].facets]]
        outer == classified(data.v, {"count", "missing", "buckets"})
        is_int(value) ==
            \/ value.k \in {"none", "int", "bool"}
            \/ value.k = "float" /\ value.v % 10 = 0
            \/ value.k = "str" /\ value.v \in {"0", "1", "2", "3", "4", "5", "6", "7", "8", "9"}
        as_int(value) == IF value.k = "none" THEN NoneV ELSE IntV(coerce_int(value))
    IN  IF \/ \E i \in 1..Len(dicts) : inner[i].raised
           \/ outer.raised
           \/ ~is_int(Get(data, "count", NoneV))
           \/ ~is_int(Get(data, "missing", NoneV))
        THEN [raised |-> "ValidationError", value |-> Nothing]
        ELSE [raised |-> "",
              value |-> [count |-> as_int(Get(data, "count", NoneV)),
                         missing |-> as_int(Get(data, "missing", NoneV)),
                         buckets |-> buckets,
                         metrics |-> outer.metrics,
                         facets |-> outer.facets]]

\* SolrFacetResult.from_response(response), for a response whose JSON facets
\* decode.  The range facets are kept as the payload has them.
from_response(response) ==
    LET legacy == Get(response, "facet_counts", NoneV)
        json_facets == Get(response, "facets", NoneV)
        parsed_legacy == IF IsDict(legacy) THEN legacy ELSE DictV(<< >>)
        parsed_json == IF IsDict(json_facets) THEN json_facets ELSE DictV(<< >>)
        section(key) == IF Truthy(parsed_legacy) THEN Get(parsed_legacy, key, NoneV)
                        ELSE DictV(<< >>)
        passthrough(key) == IF IsDict(section(key)) THEN section(key) ELSE DictV(<< >>)
        raw_queries == SelectSeq(passthrough("facet_queries").v, LAMBDA item : item[2] # NoneV)
        raw_fields == passthrough("facet_fields").v
    IN  IF ~Truthy(parsed_legacy) /\ ~Truthy(parsed_json) THEN NoneV
        ELSE [queries |-> DictV([i \in 1..Len(raw_queries) |->
                            << raw_queries[i][1], IntV(coerce_int(raw_queries[i][2])) >>]),
              fields |-> DictV([i \in 1..Len(raw_fields) |->
                            << raw_fields[i][1], parse_field_facet(raw_fields[i][2]) >>]),
              ranges |-> passthrough("facet_ranges"),
              intervals |-> passthrough("facet_intervals"),
              pivots |-> passthrough("facet_pivot"),
              heatmaps |-> passthrough("facet_heatmaps"),
              json_facets |-> IF Truthy(parsed_json) THEN from_dict(parsed_json).value
                              ELSE NoneV]

\* BaseSolrClient._build_search_response(response, document_model): the
\* exception it raises, or the SolrResponse it returns.  SolrResponse takes
\* ints for status, query_time, num_found and start, and a dict or None for
\* highlighting.
build_search_response(response) ==
    LET locals == IF Has(response, "response") THEN StandardBranch(Item(response, "response"))
                  ELSE IF Has(response, "grouped")
                  THEN GroupedBranch(response, Item(response, "grouped"))
                  ELSE Locals(<< >>, IntV(0), IntV(0), NoneV)
        raw_more_like_this == Get(response, "moreLikeThis", NoneV)
        more_like_this ==
            IF IsDict(raw_more_like_this)
            THEN MoreLikeThisResults([raised |-> "", more_like_this |-> << >>], raw_more_like_this.v,
                              Get(response, "interestingTerms", NoneV))
            ELSE [raised |-> "", more_like_this |-> << >>]
        responseHeader == Get(response, "responseHeader", DictV(<< >>))
    IN  IF locals.raised # "" THEN [raised |-> locals.raised, value |-> Nothing]
        ELSE IF more_like_this.raised # ""
        THEN [raised |-> more_like_this.raised, value |-> Nothing]
        ELSE IF /\ Truthy(Get(response, "facets", NoneV))
                /\ IsDict(Get(response, "facets", NoneV))
                /\ from_dict(Get(response, "facets", NoneV)).raised # ""
        THEN [raised |-> "ValidationError", value |-> Nothing]
        ELSE IF ~IsDict(responseHeader) THEN [raised |-> "AttributeError", value |-> Nothing]
        ELSE IF \/ Get(responseHeader, "status", IntV(0)).k # "int"
                \/ Get(responseHeader, "QTime", IntV(0)).k # "int"
                \/ locals.num_found.k # "int"
                \/ locals.start.k # "int"
                \/ Get(response, "highlighting", NoneV).k \notin {"none", "dict"}
        THEN [raised |-> "ValidationError", value |-> Nothing]
        ELSE [raised |-> "",
              value |-> [status |-> Get(responseHeader, "status", IntV(0)),
                         query_time |-> Get(responseHeader, "QTime", IntV(0)),
                         num_found |-> locals.num_found,
                         start |-> locals.start,
                         docs |-> locals.docs,
                         facets |-> from_response(response),
                         highlighting |-> Get(response, "highlighting", NoneV),
                         more_like_this |-> IF Len(more_like_this.more_like_this) = 0
                                            THEN NoneV
                                            ELSE DictV(more_like_this.more_like_this),
                         grouping |-> locals.grouping]]

\* ---------------------------------------------------------------------------
\* Decoding, called on its own.
\* ---------------------------------------------------------------------------

\* A flat facet array [value, count, value, count, ...] of <<value, count>> pairs.
FlatArray(pairs) ==
    ListV([i \in 1..(2 * Len(pairs)) |->
            IF i % 2 = 1 THEN StrV(pairs[(i + 1) \div 2][1]) ELSE IntV(pairs[i \div 2][2])])

\* The facet map {value: count, ...} of <<value, count>> pairs.
Mapping(pairs) == DictV([i \in 1..Len(pairs) |-> << pairs[i][1], IntV(pairs[i][2]) >>])

\* The legacy field facets decoded: each list of counted values in the array
\* form and in the map form, an array that ends on a value, an array of
\* [value, count] entries, a map with the two sections Solr adds under the
\* keys missing and numBuckets, a map of {count: n} entries, and a number.
RawFields ==
    LET counted == Maps({"a", "b", "missing", "numBuckets"}, {1, 3})
    IN  { FlatArray(pairs) : pairs \in counted } \cup { Mapping(pairs) : pairs \in counted }
        \cup { ListV(<< StrV("a"), IntV(1), StrV("b") >>),
               ListV(<< ListV(<< StrV("a"), IntV(1) >>), ListV(<< StrV("b") >>), ListV(<< >>) >>),
               DictV(<< << "a", DictV(<< << "count", IntV(3) >>, << "pct", IntV(1) >> >>) >> >>),
               IntV(5) }

\* The response bodies decoded.  Every document of a caller's type has an id.
Responses ==
    LET Doc1 == DictV(<< << "id", StrV("d1") >>, << "title", StrV("solr") >> >>)
        Doc2 == DictV(<< << "id", StrV("d2") >>, << "title", StrV("lucene") >> >>)
        NoId == DictV(<< << "title", StrV("untitled") >> >>)
        part(key, val) == << << key, val >> >>
        G1 == DictV(<< << "groupValue", StrV("acme") >>,
                       << "doclist", DictV(<< << "numFound", IntV(3) >>, << "start", IntV(0) >>,
                                              << "docs", ListV(<< Doc1 >>) >> >>) >> >>)
        G2 == DictV(<< << "groupValue", StrV("apex") >>,
                       << "doclist", DictV(<< << "numFound", IntV(4) >>, << "start", IntV(0) >>,
                                              << "docs", ListV(<< Doc2 >>) >> >>) >> >>)
        G3 == DictV(<< << "groupValue", NoneV >>,
                       << "doclist", DictV(<< << "docs", ListV(<< >>) >> >>) >> >>)
        byQuery == << "price:[0 TO 10]",
                      DictV(<< << "matches", IntV(5) >>,
                               << "doclist", DictV(<< << "numFound", IntV(2) >>,
                                                      << "docs", ListV(<< Doc1 >>) >> >>) >> >>) >>
        byField(groups) == << "brand", DictV(<< << "matches", IntV(10) >>,
                                                << "groups", ListV(groups) >> >>) >>
        shapes ==
            { << >>, part("error", DictV(<< << "msg", StrV("undefined field") >> >>)) }
            \cup { part("response", DictV(<< << "numFound", IntV(7) >>, << "start", IntV(0) >>,
                                             << "docs", ListV(docs) >> >>)) :
                     docs \in Lists({Doc1, Doc2, NoId}) }
            \cup { part("response", DictV(<< << "numFound", IntV(7) >>, << "start", IntV(0) >> >>)),
                   part("response", DictV(<< << "start", IntV(0) >>, << "docs", ListV(<< >>) >> >>)),
                   part("response", DictV(<< << "numFound", IntV(7) >>,
                                             << "docs", ListV(<< >>) >> >>)) }
            \cup { part("grouped", DictV(<< byField(groups) >>)) : groups \in Lists({G1, G2, G3}) }
            \cup { part("grouped", ListV(<< >>)),
                   part("grouped", DictV(<< << "brand", IntV(5) >> >>)),
                   part("grouped", DictV(<< byQuery >>)),
                   part("grouped", DictV(<< byField(<< G1, G2 >>), byQuery >>)) }
        headers ==
            { << >>, part("responseHeader", DictV(<< >>)),
              part("responseHeader", DictV(<< << "status", IntV(0) >>, << "QTime", IntV(5) >> >>)) }
        terms == ListV(<< StrV("title:solr"), FloatV(10) >>)
        weights == DictV(<< << "title:solr", FloatV(10) >> >>)
        similar ==
            { part("moreLikeThis",
                   DictV(<< << "d1", DictV(<< << "numFound", IntV(1) >>, << "start", IntV(0) >>,
                                              << "docs", ListV(<< Doc2 >>) >> >>) >> >>)),
              part("moreLikeThis",
                   DictV(<< << "d1", DictV(<< << "numFound", IntV(1) >>,
                                              << "docs", ListV(<< Doc2 >>) >> >>) >>,
                            << "d2", DictV(<< << "numFound", IntV(0) >>,
                                              << "docs", ListV(<< >>) >> >>) >> >>)) }
        interesting ==
            { << >>, part("interestingTerms", terms), part("interestingTerms", weights),
              part("interestingTerms", DictV(<< << "d1", terms >> >>)),
              part("interestingTerms", DictV(<< << "d1", weights >>, << "d2", weights >> >>)) }
        facets ==
            { << >>,
              part("facet_counts",
                   DictV(<< << "facet_queries", DictV(<< << "price:[0 TO 10]", IntV(4) >> >>) >>,
                            << "facet_fields",
                               DictV(<< << "cat", FlatArray(<< << "a", 3 >>, << "b", 1 >> >>) >> >>)
                            >> >>)) }
        highlights ==
            { << >>,
              part("highlighting",
                   DictV(<< << "d1", DictV(<< << "title",
                                                 ListV(<< StrV("<em>solr</em>") >>) >> >>) >> >>)) }
    IN  { DictV(h \o s \o m \o f \o l) :
            h \in headers, s \in shapes,
            m \in {<< >>} \cup { a \o b : a \in similar, b \in interesting },
            f \in facets, l \in highlights }

\* BaseSolrClient._build_search_response(response, document_model), a pure
\* function, applied once to a response.
BuildSearchResponse ==
    /\ op = NoOp
    /\ \E response \in Responses :
        /\ op' = [name |-> "_build_search_response", response |-> response]
        /\ raised' = build_search_response(response).raised
        /\ returned' = build_search_response(response).value
        /\ UNCHANGED << client, requests >>
        /\ UNCHANGED << parser, error, result, builds, call, given, peer >>

\* SolrFacetResult._parse_field_facet(raw_field), a pure function, applied
\* once to a raw field facet.
ParseFieldFacet ==
    /\ op = NoOp
    /\ \E raw_field \in RawFields :
        /\ op' = [name |-> "_parse_field_facet", raw_field |-> raw_field]
        /\ raised' = ""
        /\ returned' = parse_field_facet(raw_field)
        /\ UNCHANGED << client, requests >>
        /\ UNCHANGED << parser, error, result, builds, call, given, peer >>

\* SolrJsonFacetNode.from_dict(data), a pure function, applied once to a JSON
\* facets object: leaves with a count, nodes over the leaves and nodes over
\* those, each with or without count, missing, buckets (a list of bucket maps
\* and of one value that is no map), metrics and child facets.
FromDict ==
    /\ op = NoOp
    /\ LET With(key, values) == { << >> } \cup { << << key, val >> >> : val \in values }
           Metric == { IntV(7), DictV(<< << "min", IntV(1) >> >>) }
           Leaf == { DictV(<< << "count", c >> >>) : c \in { IntV(2), StrV("many") } }
           Bucket(children) ==
               { DictV(<< << "val", StrV("a") >>, << "count", IntV(1) >> >> \o m \o sub) :
                    m \in With("avg", Metric), sub \in With("sub", children) }
           Node(children) ==
               { DictV(head \o buckets \o m \o sub) :
                    head \in { << >>, << << "count", IntV(3) >> >>,
                               << << "count", IntV(3) >>, << "missing", IntV(1) >> >>,
                               << << "missing", DictV(<< << "count", IntV(1) >> >>) >> >> },
                    buckets \in With("buckets", { ListV(<< b, StrV("junk") >>) :
                                                     b \in Bucket(children) }),
                    m \in With("total", Metric), sub \in With("by_brand", children) }
           Over(children) ==
               { DictV(<< << "count", IntV(5) >>, << "top", ch >> >>) : ch \in children }
                 \cup { DictV(<< << "buckets", ListV(<< b >>) >> >>) :
                            b \in { DictV(<< << "val", StrV("b") >>, << "by", ch >> >>) :
                                       ch \in children } }
       IN  \E data \in Node(Leaf) \cup Over(Node(Leaf)) :
              /\ op' = [name |-> "from_dict", data |-> data]
              /\ raised' = from_dict(data).raised
              /\ returned' = from_dict(data).value
    /\ UNCHANGED << client, requests >>
    /\ UNCHANGED << parser, error, result, builds, call, given, peer >>

NextDecode == BuildSearchResponse \/ ParseFieldFacet \/ FromDict

SpecDecode == Init /\ [][NextDecode]_vars

\* ---------------------------------------------------------------------------
\* The clients.  SolrClient and AsyncSolrClient share BaseSolrClient; a request
\* is the method, the endpoint joined to the base URL, the query parameters
\* and the JSON body handed to the transport.
\* ---------------------------------------------------------------------------

\* A delete command in which a list of one id stays a list.
build_delete_command_as_given(query, ids) ==
    IF Truthy(ids) /\ ~Truthy(query) THEN ids
    ELSE IF Truthy(query) /\ ~Truthy(ids) THEN [query |-> query]
    ELSE [query |-> query, id |-> ids]

\* BaseSolrClient._build_delete_command(query, ids)
build_delete_command(query, ids) ==
    IF Truthy(ids) /\ ~Truthy(query)
    THEN IF ids.k = "str" THEN ids
         ELSE IF ids.k = "list" /\ Len(ids.v) = 1 THEN StrV(ids.v[1])
         ELSE ids
    ELSE IF Truthy(query) /\ ~Truthy(ids) THEN [query |-> query]
    ELSE [query |-> query, id |-> ids]

\* BaseSolrClient._build_search_params(query, **kwargs): query is a string, a
\* parser or a dict of parameters.  The returned params, and the query object
\* the caller holds after the call.  setdefault is the tail of the function,
\* params.setdefault("wt", "json"); return params, after params.update(kwargs);
\* for a dict, params is the caller's dict itself, so both write into it.
build_search_params(query, kwargs) ==
    LET setdefault(updated, dict) ==
            LET params == IF "wt" \in DOMAIN updated THEN updated
                          ELSE Update(updated, [wt |-> StrV("json")])
            IN  [params |-> params,
                 query |-> IF dict THEN [query EXCEPT !.v = params] ELSE query]
        built(r) == [(setdefault(Update(r.params, kwargs), FALSE))
                        EXCEPT !.query = [query EXCEPT !.v = r.self]]
    IN  CASE query.k = "str" -> setdefault(Update([q |-> query], kwargs), FALSE)
          [] query.k = "parser" -> built(build(query.v))
          [] OTHER -> setdefault(Update(query.v, kwargs), TRUE)

\* What a search gets from the bodies Solr answers it with, an empty result
\* and one document found: self._build_search_response(response, document_model).
SearchAnswers ==
    LET header == << "responseHeader",
                     DictV(<< << "status", IntV(0) >>, << "QTime", IntV(5) >> >>) >>
        found == << "response",
                    DictV(<< << "numFound", IntV(1) >>, << "start", IntV(0) >>,
                             << "docs", ListV(<< DictV(<< << "id", StrV("d1") >> >>) >>) >> >>) >>
    IN  { build_search_response(body) : body \in {DictV(<< header >>), DictV(<< header, found >>)} }

\* The transport takes a request and answers it: with an HTTP failure, which
\* the caller sees as the exception failure, or with a JSON body, which an
\* update returns as it is and a search decodes.
Transport(request, failure, decode) ==
    /\ Len(requests) < MaxRequests
    /\ requests' = Append(requests, request)
    /\ \/ raised' = failure /\ returned' = Nothing
       \/ \E answer \in
              IF decode THEN SearchAnswers
              ELSE {[raised |-> "",
                     value |-> DictV(<< << "responseHeader",
                                           DictV(<< << "status", IntV(0) >>,
                                                    << "QTime", IntV(5) >> >>) >> >>)]} :
            raised' = answer.raised /\ returned' = answer.value

\* client = SolrClient(base_url) or client = AsyncSolrClient(base_url)
Connect ==
    /\ client = NoClient
    /\ \E cls \in {"SolrClient", "AsyncSolrClient"} :
          client' = [cls |-> cls, collection |-> NoneV]
    /\ op' = [name |-> "__init__"]
    /\ raised' = ""
    /\ returned' = Nothing
    /\ UNCHANGED requests
    /\ UNCHANGED << parser, error, result, builds, call, given, peer >>

\* client.set_collection(collection)
SetCollection ==
    /\ client # NoClient
    /\ client' = [client EXCEPT !.collection = StrV("books")]
    /\ op' = [name |-> "set_collection"]
    /\ raised' = ""
    /\ returned' = NoneV
    /\ UNCHANGED requests
    /\ UNCHANGED << parser, error, result, builds, call, given, peer >>

\* client.add(documents, commit): a document or a list of documents.
\* AsyncSolrClient checks the collection, posts to update/json/docs and returns
\* whatever body comes back; SolrClient posts under the collection and raises
\* on an HTTP error status.
Add ==
    /\ client # NoClient
    /\ \E documents \in {DictV(<< << "id", StrV("d1") >> >>),
                         ListV(<< DictV(<< << "id", StrV("d1") >> >>),
                                  DictV(<< << "id", StrV("d2") >> >>) >>)},
          commit \in BOOLEAN :
        /\ op' = [name |-> "add", documents |-> documents, commit |-> commit]
        /\ IF client.cls = "AsyncSolrClient" /\ ~Truthy(client.collection)
           THEN raised' = "ValueError" /\ returned' = Nothing /\ UNCHANGED requests
           ELSE Transport(
                    [method |-> "POST",
                     url |-> IF client.cls = "AsyncSolrClient" THEN "update/json/docs"
                             ELSE PyStr(client.collection) \o "/update/json/docs",
                     params |-> IF commit THEN [commit |-> StrV("true")] ELSE EmptyDict,
                     json |-> IF documents.k = "list" THEN documents
                              ELSE ListV(<< documents >>)],
                    IF client.cls = "AsyncSolrClient" THEN "ConnectError" ELSE "HTTPStatusError",
                    FALSE)
    /\ UNCHANGED client
    /\ UNCHANGED << parser, error, result, builds, call, given, peer >>

\* client.delete(query, ids), commit left at its default True.  AsyncSolrClient
\* posts to update, SolrClient to <collection>/update.
Delete ==
    /\ client # NoClient
    /\ \E query \in {NoneV, StrV(""), StrV("status:archived")},
          ids \in {NoneV, StrV(""), ListV(<< >>), StrV("d1"), ListV(<< "d1" >>),
                   ListV(<< "d1", "d2" >>)},
          commit \in {TRUE} :
        /\ op' = [name |-> "delete", query |-> query, ids |-> ids, commit |-> commit]
        /\ IF ~Truthy(client.collection)
           THEN raised' = "ValueError" /\ returned' = Nothing /\ UNCHANGED requests
           ELSE IF ~(Truthy(query) \/ Truthy(ids))
           THEN raised' = "ValueError" /\ returned' = Nothing /\ UNCHANGED requests
           ELSE Transport(
                    [method |-> "POST",
                     url |-> IF client.cls = "AsyncSolrClient" THEN "update"
                             ELSE PyStr(client.collection) \o "/update",
                     params |-> IF commit THEN [commit |-> StrV("true")] ELSE EmptyDict,
                     json |-> [delete |-> build_delete_command(query, ids)]],
                    "SolrError", FALSE)
    /\ UNCHANGED client
    /\ UNCHANGED << parser, error, result, builds, call, given, peer >>

\* client.commit()
Commit ==
    /\ client # NoClient
    /\ op' = [name |-> "commit"]
    /\ Transport([method |-> "GET", url |-> PyStr(client.collection) \o "/update",
                  params |-> [commit |-> StrV("true")], json |-> NoneV],
                 "SolrError", FALSE)
    /\ UNCHANGED client
    /\ UNCHANGED << parser, error, result, builds, call, given, peer >>

\* client.search(query, document_model, **kwargs): query is a string, a dict of
\* parameters or a parser.
Search ==
    /\ client # NoClient
    /\ \E called \in
            {<< StrV("*:*"), EmptyDict >>,
             << StrV("*:*"), [rows |-> IntV(5)] >>,
             << [k |-> "params", v |-> [q |-> StrV("solr"), wt |-> StrV("xml")]],
                [rows |-> IntV(5)] >>,
             << [k |-> "parser",
                 v |-> New("StandardParser", [query |-> StrV("laptop")], << >>)],
                [rows |-> IntV(5)] >>} :
        LET search(built) ==
                /\ op' = [name |-> "search", query |-> called[1], kwargs |-> called[2],
                          held |-> built.query]
                /\ Transport([method |-> "GET", url |-> PyStr(client.collection) \o "/select",
                              params |-> built.params, json |-> NoneV],
                             "SolrError", TRUE)
        IN  search(build_search_params(called[1], called[2]))
    /\ UNCHANGED client
    /\ UNCHANGED << parser, error, result, builds, call, given, peer >>

\* client.add_field_type(field_type), client.add_field(field) and
\* client.add_dynamic_field(field), each given its definition as a dict: the
\* three methods differ in the endpoint and in the key of the command.
AddToSchema ==
    /\ client # NoClient
    /\ \E method \in {<< "add_field_type", "/schema/fieldtypes", "add-field-type" >>,
                      << "add_field", "/schema/fields", "add-field" >>,
                      << "add_dynamic_field", "/schema/fields", "add-dynamic-field" >>} :
        /\ op' = [name |-> method[1]]
        /\ IF ~Truthy(client.collection)
           THEN raised' = "ValueError" /\ returned' = Nothing /\ UNCHANGED requests
           ELSE Transport(
                    [method |-> "POST", url |-> PyStr(client.collection) \o method[2],
                     params |-> NoneV,
                     json |-> [key \in {method[3]} |->
                                 DictV(<< << "name", StrV("title") >>,
                                          << "type", StrV("text_general") >> >>)]],
                    "SolrError", FALSE)
    /\ UNCHANGED client
    /\ UNCHANGED << parser, error, result, builds, call, given, peer >>

NextClient ==
    Connect \/ SetCollection \/ Add \/ Delete \/ Commit \/ Search \/ AddToSchema

SpecClient == Init /\ [][NextClient]_vars


\* ---------------------------------------------------------------------------
\* Two parser instances.
\* ---------------------------------------------------------------------------

\* peer = StandardParser(query=..., configs=[...]) or StandardParser(query=...):
\* a second instance, constructed on its own.  Validation builds the configs
\* list of the instance from the argument, and from a copy of the class-level
\* default [] when the argument is left out.
ConstructPeer ==
    /\ peer = NoParser
    /\ \E configs \in { << >>, << FacetA >> } :
          peer' = New("StandardParser", RequiredKw("StandardParser"), configs)
    /\ UNCHANGED << parser, error, result, builds, call, given >>
    /\ UNCHANGED << client, requests, op, raised, returned >>

\* peer.facet(**kwargs) or peer.group(**kwargs): self.configs.append(config)
\* on the list of peer.
AttachPeer ==
    /\ peer # NoParser
    /\ Len(peer.configs) < MaxConfigs
    /\ \/ \E kwargs \in FacetKw : peer' = BaseQueryParser_facet(peer, kwargs)
       \/ \E kwargs \in GroupKw : peer' = BaseQueryParser_group(peer, kwargs)
    /\ UNCHANGED << parser, error, result, builds, call, given >>
    /\ UNCHANGED << client, requests, op, raised, returned >>

NextPair ==
    \/ ConstructFrom({ [cls |-> "StandardParser", kwargs |-> RequiredKw("StandardParser"),
                        configs |-> configs] : configs \in { << >>, << FacetA >> } })
    \/ Facet \/ Build
    \/ ConstructPeer \/ AttachPeer

\* Two instances, each constructed, attached to and built in any interleaving.
SpecPair == Init /\ [][NextPair]_vars
\* ---------------------------------------------------------------------------
\* Properties of build() over construction, chaining and building (Spec).
\* ---------------------------------------------------------------------------

\* The fields of a sub-config other than its enable key.
ConfigFields(config) ==
    LET IsOrdinary(f) == f.name # "enable_key"
    IN  SelectSeq(ModelFields(config.cls), IsOrdinary)

\* The wire names of the computed fields of a class.
ComputedAliases(cls) ==
    { ComputedFields(cls)[i][2] : i \in 1..Len(ComputedFields(cls)) }

\* The wire keys of the ordinary fields of the parser that the constructor
\* call named.
SuppliedHostKeys(fields) ==
    { WireName(fields[i]) : i \in { j \in 1..Len(fields) : fields[j].name \in DOMAIN call.kwargs } }

\* The wire keys of the ordinary fields of the parser.
HostKeys(fields) == { WireName(fields[i]) : i \in 1..Len(fields) }

\* The wire keys of the fields of the i-th sub-config that its caller named.
SuppliedConfigKeys(i, fields) ==
    { WireName(fields[j]) : j \in { n \in 1..Len(fields) : fields[n].name \in given[i] } }

\* C1: the map build() returns holds the wire key of an ordinary field, of
\* the parser or of an attached sub-config, only if the caller supplied a
\* value for that field: a field left at its default puts no key in the map.
C1_OnlySuppliedFieldsEmitted ==
    Built =>
        \A key \in DOMAIN result :
            /\ (key \in HostKeys(ModelFields(parser.cls)) \ ComputedAliases(parser.cls))
                    => key \in SuppliedHostKeys(ModelFields(parser.cls))
            /\ (\E i \in 1..Len(parser.configs) :
                    key \in HostKeys(ConfigFields(parser.configs[i])))
                    => \E i \in 1..Len(parser.configs) :
                          key \in SuppliedConfigKeys(i, ConfigFields(parser.configs[i]))

\* C2: the map build() returns never holds a None value, whether the field
\* was left unset or explicitly set to None, on the parser or on a sub-config.
C2_NoNoneInParams ==
    Built => \A key \in DOMAIN result : result[key] # NoneV

\* A parser built with a field of its own explicitly None and a sub-config
\* with a field explicitly None.
C2_Witness ==
    /\ Built
    /\ \E name \in fields_set(parser) : GetAttr(parser, name) = NoneV
    /\ \E i \in 1..Len(parser.configs) :
          \E name \in fields_set(parser.configs[i]) :
              GetAttr(parser.configs[i], name) = NoneV

\* The <<wire key, value>> pairs a sub-config was explicitly given.
SetItems(config, fields) ==
    { << WireName(fields[j]), GetAttr(config, fields[j].name) >> :
        j \in { n \in 1..Len(fields) :
                  /\ fields[n].name \in fields_set(config)
                  /\ GetAttr(config, fields[n].name) # NoneV } }

\* The <<wire key, value>> pairs the i-th sub-config of the parser was given.
SetItemsAt(i) == SetItems(parser.configs[i], ConfigFields(parser.configs[i]))

\* C3: each attached sub-config contributes its enable key, set to true, and
\* its explicitly set fields; where two sub-configs set the same wire name the
\* later one's value is in the map, and a key only an earlier one sets keeps
\* the earlier value.
C3_ConfigsMergedLastWins ==
    Built =>
        \A i \in 1..Len(parser.configs) :
            /\ GetAttr(parser.configs[i], "enable_key").v \in DOMAIN result
            /\ result[GetAttr(parser.configs[i], "enable_key").v] = BoolV(TRUE)
            /\ \A item \in SetItemsAt(i) :
                  (\A j \in (i + 1)..Len(parser.configs) :
                      \A later \in SetItemsAt(j) : later[1] # item[1])
                  => /\ item[1] \in DOMAIN result
                     /\ result[item[1]] = item[2]

\* A built parser with two sub-configs that set one wire name to different
\* values, the earlier of which also sets a wire name the later leaves alone.
C3_Witness ==
    /\ Built
    /\ \E i \in 1..Len(parser.configs) : \E j \in (i + 1)..Len(parser.configs) :
          /\ \E a \in SetItemsAt(i) : \E b \in SetItemsAt(j) : a[1] = b[1] /\ a[2] # b[2]
          /\ \E a \in SetItemsAt(i) : \A b \in SetItemsAt(j) : a[1] # b[1]

\* C4: a second build() with no attachment in between returns a map equal
\* to the first: building changes nothing the next build reads.
C4_BuildIdempotent ==
    [][(builds >= 1 /\ builds' > builds) => result' = result]_vars

\* A parser with a sub-config and caller filters, built twice.
C4_Witness ==
    /\ builds >= 2
    /\ Len(parser.configs) >= 1
    /\ Truthy(GetAttr(parser, "filters"))

\* The inputs a variant requires at construction.
C8_RequiredInputs(cls) ==
    CASE cls = "StandardParser" -> {"query"}
      [] cls = "KNNQueryParser" -> {"field", "vector"}
      [] cls = "KNNTextToVectorQueryParser" -> {"field", "text"}
      [] cls = "VectorSimilarityQueryParser" -> {"field", "vector"}
      [] cls = "TermsQueryParser" -> {"field", "terms"}
      [] cls = "GeoFilterQueryParser" -> {"spatial_field", "center_point", "radial_distance"}
      [] cls = "BBoxQueryParser" -> {"bbox_field", "envelope"}
      [] OTHER -> {}

\* C8: constructing a variant without one of its required inputs fails with
\* a validation error and yields no parser, so nothing can be built from it.
C8_MissingRequiredFails ==
    (call # NoCall /\ ~(C8_RequiredInputs(call.cls) \subseteq DOMAIN call.kwargs))
        => /\ parser = NoParser
           /\ error = "ValidationError"
           /\ builds = 0
           /\ result = EmptyDict

\* A constructor call of a geofilt parser without its center point, failed.
C8_Witness ==
    /\ call # NoCall
    /\ call.cls = "GeoFilterQueryParser"
    /\ "center_point" \notin DOMAIN call.kwargs
    /\ {"spatial_field", "radial_distance"} \subseteq DOMAIN call.kwargs
    /\ error = "ValidationError"

\* The attributes under which a sub-config may be passed at construction.
ConfigAttributes == {"facet", "group", "highlight", "more_like_this"}

\* C9: a sub-config passed by its named attribute at construction is
\* accepted, and build() composes it: its enable key is true in the map and
\* its explicitly set fields are there.
C9_NamedAttributeComposed ==
    (/\ call # NoCall
     /\ C8_RequiredInputs(call.cls) \subseteq DOMAIN call.kwargs
     /\ DOMAIN call.kwargs \cap ConfigAttributes # {})
        => /\ parser # NoParser
           /\ error = ""
           /\ Built =>
                \A name \in DOMAIN call.kwargs \cap ConfigAttributes :
                    /\ GetAttr(call.kwargs[name].v, "enable_key").v \in DOMAIN result
                    /\ \A item \in SetItems(call.kwargs[name].v,
                                            ConfigFields(call.kwargs[name].v)) :
                          item[1] \in DOMAIN result /\ result[item[1]] = item[2]

\* ---------------------------------------------------------------------------
\* Properties of the clauses the variants embed in q and fq (SpecVariant).
\* ---------------------------------------------------------------------------

\* The keyword argument of the constructor call, or None when left out.
Arg(name) == IF name \in DOMAIN call.kwargs THEN call.kwargs[name] ELSE NoneV

\* The entries of a list argument; none when it was left out or None.
Entries(name) == IF Arg(name) = NoneV THEN << >> ELSE Arg(name).v

\* prefix + x for each entry x, in order, run together.
RECURSIVE Repeated(_, _)
Repeated(prefix, entries) ==
    IF entries = << >> THEN ""
    ELSE prefix \o Head(entries) \o Repeated(prefix, Tail(entries))

\* The clause the claim expects in q of a KNN parser.
C5_ExpectedQ ==
    "{!knn topK="
        \o (IF "top_k" \in DOMAIN call.kwargs THEN PyStr(Arg("top_k")) ELSE "10")
        \o " f=" \o Arg("field").v
        \o Repeated(" preFilter=", Entries("pre_filter"))
        \o Repeated(" includeTags=", Entries("include_tags"))
        \o Repeated(" excludeTags=", Entries("exclude_tags"))
        \o "}" \o PyStr(Arg("vector"))

\* C5: a KNN parser builds q as {!knn topK=<top_k> f=<field>, then one
\* preFilter=, includeTags= and excludeTags= token per supplied entry, then }
\* and the vector as a bracketed list; topK is 10 when not supplied, and none
\* of f, vector, topK, preFilter, includeTags, excludeTags is a key of the map.
C5_KnnClause ==
    (Built /\ parser.cls = "KNNQueryParser") =>
        /\ "q" \in DOMAIN result
        /\ result["q"] = StrV(C5_ExpectedQ)
        /\ DOMAIN result
             \cap {"f", "vector", "topK", "preFilter", "includeTags", "excludeTags"} = {}

\* A built KNN parser with two pre-filters, tags to include and to exclude,
\* and top_k left out.
C5_Witness ==
    /\ Built
    /\ parser.cls = "KNNQueryParser"
    /\ "top_k" \notin DOMAIN call.kwargs
    /\ Len(Entries("pre_filter")) = 2
    /\ Len(Entries("include_tags")) >= 1
    /\ Len(Entries("exclude_tags")) >= 1

\* The clause the claim expects of a terms parser.
C6_ExpectedClause ==
    "{!terms f=" \o Arg("field").v
        \o (IF Arg("method") # NoneV THEN " method=" \o Arg("method").v ELSE "")
        \o "}"
        \o Join(Entries("terms"),
                IF "separator" \in DOMAIN call.kwargs THEN Arg("separator").v ELSE ",")

\* C6: a terms parser builds fq as {!terms f=<field>[ method=<m>]} followed by
\* the terms joined by the separator; with a non-empty filters list F the fq
\* key is F followed by the clause, with none it is the clause alone, and the
\* parser's own filters are left as the caller gave them.
C6_TermsClause ==
    (Built /\ parser.cls = "TermsQueryParser") =>
        /\ "fq" \in DOMAIN result
        /\ result["fq"] = (IF Entries("filters") # << >>
                           THEN ListV(Entries("filters") \o << C6_ExpectedClause >>)
                           ELSE StrV(C6_ExpectedClause))
        /\ GetAttr(parser, "filters") = Arg("filters")

\* A built terms parser with two caller filters, two terms, a matching method
\* and a separator of its own.
C6_Witness ==
    /\ Built
    /\ parser.cls = "TermsQueryParser"
    /\ Len(Entries("filters")) = 2
    /\ Len(Entries("terms")) = 2
    /\ Arg("method") # NoneV
    /\ Arg("separator") = StrV(" ")

\* " key=value" when the argument was given a value, else nothing.
Optional(key, name, value) == IF Arg(name) # NoneV THEN " " \o key \o "=" \o value ELSE ""

\* A lowercase boolean.
Boolean(val) == IF val.k = "bool" /\ val.v THEN "true" ELSE "false"

\* The clause the claim expects in fq of a geofilt parser.
C7_ExpectedFq ==
    "{!" \o (IF "filter_type" \in DOMAIN call.kwargs THEN Arg("filter_type").v ELSE "geofilt")
        \o " sfield=" \o Arg("spatial_field").v
        \o " pt=" \o FloatStr(Arg("center_point").v[1]) \o "," \o FloatStr(Arg("center_point").v[2])
        \o " d=" \o FloatStr(Arg("radial_distance").v)
        \o Optional("score", "score", PyStr(Arg("score")))
        \o Optional("filter", "filter", Boolean(Arg("filter")))
        \o Optional("cache", "cache", Boolean(Arg("cache")))
        \o "}"

\* C7: a geofilt parser builds q as *:* and fq as {!<filter_type>
\* sfield=<field> pt=<lat>,<lon> d=<distance>, then score=, filter= and cache=
\* for those supplied, booleans in lowercase, then }; the filter type is
\* geofilt unless supplied, and none of sfield, pt, d, score, filter, cache is
\* a key of the map.
C7_GeoFilterClause ==
    (Built /\ parser.cls = "GeoFilterQueryParser") =>
        /\ {"q", "fq"} \subseteq DOMAIN result
        /\ result["q"] = StrV("*:*")
        /\ result["fq"] = StrV(C7_ExpectedFq)
        /\ DOMAIN result \cap {"sfield", "pt", "d", "score", "filter", "cache"} = {}

\* A built geofilt parser with a score, filter true and cache false, and the
\* filter type left out.
C7_Witness ==
    /\ Built
    /\ parser.cls = "GeoFilterQueryParser"
    /\ "filter_type" \notin DOMAIN call.kwargs
    /\ Arg("score") # NoneV
    /\ Arg("filter") = BoolV(TRUE)
    /\ Arg("cache") = BoolV(FALSE)

\* The weighted-field maps of the dismax and edismax parsers.
WeightedFields ==
    {"query_fields", "phrase_fields", "phrase_fields_bigram", "phrase_fields_trigram"}

\* field^weight for each entry of a weighted-field map, single spaces between.
RECURSIVE Boosted(_)
Boosted(entries) ==
    IF entries = << >> THEN ""
    ELSE Head(entries)[1] \o "^" \o FloatStr(Head(entries)[2])
            \o (IF Len(entries) > 1 THEN " " ELSE "") \o Boosted(Tail(entries))

\* C10: every weighted-field map a dismax or edismax parser was given is in
\* the map build() returns as one string of field^weight tokens separated by
\* single spaces, never as a nested map.
C10_WeightedFieldsAreStrings ==
    (Built /\ parser.cls \in {"DisMaxQueryParser", "ExtendedDisMaxQueryParser"}) =>
        /\ \A key \in DOMAIN result : result[key].k # "map"
        /\ \A name \in WeightedFields \cap DOMAIN call.kwargs :
              Arg(name) # NoneV =>
                \E key \in DOMAIN result : result[key] = StrV(Boosted(Arg(name).v))

\* ---------------------------------------------------------------------------
\* The response decoder: claims.
\* ---------------------------------------------------------------------------

\* The last call was the decoder, on op.response.
Decoded == op.name = "_build_search_response"

\* The entry of the response header under key, 0 when the response has no
\* header or the header has no such entry.
HeaderEntry(response, key) ==
    IF Has(response, "responseHeader") /\ Has(Item(response, "responseHeader"), key)
    THEN Item(Item(response, "responseHeader"), key)
    ELSE IntV(0)

\* C11: decoding a response whose top level has neither a "response" key nor
\* a "grouped" key returns, and the result has no documents, a found-count of
\* 0, a start of 0, and the status and the query time of the response header,
\* each 0 when the header does not give it.  The other sections of the
\* responses decoded (moreLikeThis, facet_counts, highlighting) are as Solr
\* writes them.
C11_UnrecognizedShapeIsEmpty ==
    (Decoded /\ ~Has(op.response, "response") /\ ~Has(op.response, "grouped")) =>
        /\ raised = ""
        /\ returned # Nothing
        /\ returned.docs = << >>
        /\ returned.num_found = IntV(0)
        /\ returned.start = IntV(0)
        /\ returned.status = HeaderEntry(op.response, "status")
        /\ returned.query_time = HeaderEntry(op.response, "QTime")

\* An unrecognized shape with a header that gives a query time was decoded.
C11_Witness ==
    /\ Decoded /\ ~Has(op.response, "response") /\ ~Has(op.response, "grouped")
    /\ Has(op.response, "error")
    /\ raised = ""
    /\ returned.query_time = IntV(5)

\* C12: the decoder never raises, whatever the shape of the response: a
\* "response" object that lacks docs, numFound or start, a "grouped" value
\* that is not a map of maps, or a document that fails validation against the
\* caller's document type all give a result.
C12_DecoderNeverRaises == Decoded => (raised = "" /\ returned # Nothing)

\* getattr(res, "extra", {}): where the tests look for the raw payload.
Extra(res) == IF "extra" \in DOMAIN res THEN res.extra ELSE DictV(<< >>)

\* C13: the result the decoder returns preserves the raw response payload:
\* the caller reads the original top-level entries (grouped, facet_counts,
\* responseHeader, ...) back from the result.
C13_RawPayloadPreserved == (Decoded /\ raised = "") => Extra(returned) = op.response

\* A flat facet array of <<value, count>> pairs with distinct string values.
IsFlatArray(raw_field) ==
    /\ raw_field.k = "list"
    /\ Len(raw_field.v) % 2 = 0
    /\ \A i \in 1..Len(raw_field.v) : raw_field.v[i].k = (IF i % 2 = 1 THEN "str" ELSE "int")
    /\ \A i, j \in 1..Len(raw_field.v) :
          (i % 2 = 1 /\ j % 2 = 1 /\ i # j) => raw_field.v[i] # raw_field.v[j]

\* The <<value, count>> pairs of a flat facet array.
PairsOf(raw_field) ==
    [i \in 1..(Len(raw_field.v) \div 2) |->
        << raw_field.v[2 * i - 1].v, raw_field.v[2 * i].v >>]

\* C14: for every list of (value, count) pairs with distinct string values,
\* the field facet in flat array form [value, count, ...] decodes to the same
\* buckets, the same missing and the same num_buckets as the field facet in
\* map form {value: count, ...}, the values "missing" and "numBuckets"
\* included.
C14_FacetFormsAgree ==
    (op.name = "_parse_field_facet" /\ IsFlatArray(op.raw_field)) =>
        LET of_map == parse_field_facet(Mapping(PairsOf(op.raw_field)))
        IN  /\ returned.buckets = of_map.buckets
            /\ returned.missing = of_map.missing
            /\ returned.num_buckets = of_map.num_buckets

\* The response has one grouped field, and that field carries a groups list.
OneGroupedField(response) ==
    /\ ~Has(response, "response")
    /\ Has(response, "grouped")
    /\ IsDict(Item(response, "grouped"))
    /\ Len(Item(response, "grouped").v) = 1
    /\ IsDict(Item(response, "grouped").v[1][2])
    /\ Has(Item(response, "grouped").v[1][2], "groups")

\* The groups of the one grouped field of a response.
GroupsIn(response) == Item(Item(response, "grouped").v[1][2], "groups").v

\* The sum of doclist.numFound over groups, a doclist without one counting 0.
RECURSIVE SumNumFound(_)
SumNumFound(groups) ==
    IF Len(groups) = 0 THEN 0
    ELSE (IF Has(Item(Head(groups), "doclist"), "numFound")
          THEN Item(Item(Head(groups), "doclist"), "numFound").v ELSE 0)
         + SumNumFound(Tail(groups))

\* C15, as claimed: decoding a grouped response with groups g1..gn under one
\* grouped field gives that field a match count (SolrGroupedField.matches)
\* equal to the sum of the groups' doclist.numFound.
C15_FieldMatchesIsSum ==
    (Decoded /\ raised = "" /\ OneGroupedField(op.response)) =>
        returned.grouping.grouped.v[1][2].matches = IntV(SumNumFound(GroupsIn(op.response)))

\* C15, amended: decoding a grouped response with groups g1..gn under one
\* grouped field gives the result a found-count (num_found) equal to the sum
\* of the groups' doclist.numFound; the match count of the field is the
\* "matches" entry of the payload.
C15_FoundCountIsSum ==
    (Decoded /\ raised = "" /\ OneGroupedField(op.response)) =>
        /\ returned.num_found = IntV(SumNumFound(GroupsIn(op.response)))
        /\ returned.grouping.grouped.v[1][2].matches =
              Get(Item(op.response, "grouped").v[1][2], "matches", IntV(0))

\* Two groups of 3 and 4 documents under "brand" were decoded.
C15_Witness ==
    /\ Decoded /\ raised = "" /\ OneGroupedField(op.response)
    /\ Len(GroupsIn(op.response)) = 2
    /\ Item(op.response, "grouped").v[1][1] = "brand"
    /\ returned.num_found = IntV(7)
    /\ Len(returned.grouping.grouped.v[1][2].groups.v) = 2

\* The interestingTerms payload of a response that belongs to doc_id: the
\* entry under doc_id when the payload is keyed by document id, the whole
\* payload otherwise (a flat list or a term-to-weight map).
TermsBelongingTo(response, doc_id) ==
    LET payload == Get(response, "interestingTerms", NoneV)
        more_like_this == Item(response, "moreLikeThis")
    IN  IF IsDict(payload) /\ Has(payload, doc_id) THEN Item(payload, doc_id)
        ELSE IF IsDict(payload) /\ \E i \in 1..Len(more_like_this.v) :
                                        Has(payload, more_like_this.v[i][1])
        THEN NoneV
        ELSE payload

\* C16: for each document id of the moreLikeThis block, the result for that id
\* carries the parsed similar documents and the interestingTerms payload that
\* belongs to the id, unmodified, a flat list or a term-to-weight map alike;
\* a payload the response has is never dropped or replaced by None.
C16_InterestingTermsAttached ==
    (Decoded /\ raised = "" /\ Has(op.response, "moreLikeThis")) =>
        \A i \in 1..Len(Item(op.response, "moreLikeThis").v) :
            LET doc_id == Item(op.response, "moreLikeThis").v[i][1]
                payload == Item(op.response, "moreLikeThis").v[i][2]
            IN  /\ returned.more_like_this # NoneV
                /\ Has(returned.more_like_this, doc_id)
                /\ Item(returned.more_like_this, doc_id).docs = Item(payload, "docs").v
                /\ Item(returned.more_like_this, doc_id).interesting_terms =
                      TermsBelongingTo(op.response, doc_id)

\* ---------------------------------------------------------------------------
\* The clients: claims.
\* ---------------------------------------------------------------------------

\* An argument that is absent or empty.
Absent(val) == val \in {NoneV, StrV(""), ListV(<< >>)}

\* C17: delete with neither ids nor query (each absent or empty) raises before
\* any request goes to the transport, on SolrClient and on AsyncSolrClient,
\* with or without a collection set: the call sends no request.
C17_EmptyDeleteRefused ==
    [][ (op'.name = "delete" /\ Absent(op'.query) /\ Absent(op'.ids)) =>
            (raised' # "" /\ returned' = Nothing /\ requests' = requests) ]_vars

\* delete() with nothing to delete was refused on an AsyncSolrClient with a
\* collection set, after an earlier request.
C17_Witness ==
    /\ op.name = "delete" /\ Absent(op.query) /\ Absent(op.ids)
    /\ client.cls = "AsyncSolrClient"
    /\ client.collection = StrV("books")
    /\ raised = "ValueError"
    /\ Len(requests) = 1

\* The delete command the claim gives for query and ids, one of them given.
C18_ExpectedCommand(query, ids) ==
    IF Absent(query)
    THEN IF ids.k = "str" THEN ids
         ELSE IF Len(ids.v) = 1 THEN StrV(ids.v[1])
         ELSE ids
    ELSE IF Absent(ids) THEN [query |-> query]
    ELSE [id |-> ids, query |-> query]

C19_UnsetCollectionRefused ==
    [][ (/\ op'.name \in {"add", "delete", "commit", "search", "add_field_type",
                          "add_field", "add_dynamic_field"}
         /\ client.collection = NoneV) =>
            (raised' = "ValueError" /\ requests' = requests) ]_vars

\* ---------------------------------------------------------------------------
\* Chained calls: claims.
\* ---------------------------------------------------------------------------

\* C20: each chained method (facet, group, highlight, more_like_this) returns
\* a new parser and leaves its receiver unchanged: after p2 = p.facet(...),
\* the configs list of p and what p.build() returns are as before the call.
\* A chained call is a step that records one more sub-config of the caller.
C20_ChainedLeavesReceiverUnchanged ==
    [][ (parser # NoParser /\ call' = call /\ Len(given') = Len(given) + 1) =>
            /\ parser'.configs = parser.configs
            /\ build(parser').params = build(parser).params ]_vars


\* ---------------------------------------------------------------------------
\* build(): what it leaves alone.
\* ---------------------------------------------------------------------------

\* C21: build() has no side effect on its inputs: across a build() step the
\* parser's own field values and set-field tracking, the length and order of
\* its configs list, and every sub-config's field values and set-field
\* tracking are what they were before the call.
C21_BuildLeavesInputsUnchanged ==
    [][ (parser # NoParser /\ builds' = builds + 1) =>
            /\ parser'.values = parser.values
            /\ parser'.fields_set = parser.fields_set
            /\ Len(parser'.configs) = Len(parser.configs)
            /\ \A i \in 1..Len(parser.configs) :
                  /\ parser'.configs[i].values = parser.configs[i].values
                  /\ parser'.configs[i].fields_set = parser.configs[i].fields_set ]_vars

\* A terms parser holding caller filters and a sub-config, after its build().
C21_Witness ==
    /\ builds = 1
    /\ parser # NoParser /\ parser.cls = "TermsQueryParser"
    /\ Truthy(GetAttr(parser, "filters"))
    /\ Len(parser.configs) >= 1
    /\ parser.configs[1].fields_set # {}

\* The text s has the text t somewhere in it.
Contains(s, t) ==
    \E i \in 1..(Len(s) - Len(t) + 1) : SubSeq(s, i, i + Len(t) - 1) = t

\* C22: the q compiled by VectorSimilarityQueryParser and
\* KNNTextToVectorQueryParser omits an optional parameter the caller did not
\* supply (min_traverse, min_return, model): no token of the clause renders an
\* unset value as `=None`.
C22_UnsetOptionalOmitted ==
    (/\ Built
     /\ parser.cls \in {"VectorSimilarityQueryParser", "KNNTextToVectorQueryParser"}) =>
        ~Contains(result["q"].v, "=None")

\* C23: for every variant, each clause the caller supplied in the common
\* filters field appears in the compiled fq; for GeoFilterQueryParser the fq
\* holds the caller's clauses as well as the spatial clause.
C23_CallerFiltersKept ==
    (Built /\ Truthy(GetAttr(parser, "filters"))) =>
        /\ "fq" \in DOMAIN result
        /\ \A i \in 1..Len(GetAttr(parser, "filters").v) :
              LET clause == GetAttr(parser, "filters").v[i]
              IN  IF result["fq"].k = "list"
                  THEN \E j \in 1..Len(result["fq"].v) : result["fq"].v[j] = clause
                  ELSE result["fq"] = StrV(clause)

\* C24: the map compiled by BBoxQueryParser.build() carries the bounding-box
\* inputs only inside the clause of q: it has no top-level key bbox_field,
\* envelope, predicate or score.
C24_BBoxInputsOnlyInClause ==
    (Built /\ parser.cls = "BBoxQueryParser") =>
        /\ "q" \in DOMAIN result
        /\ DOMAIN result \cap {"bbox_field", "envelope", "predicate", "score"} = {}

\* ---------------------------------------------------------------------------
\* Chained calls: what they keep.
\* ---------------------------------------------------------------------------

\* C25: for a parser constructed with the configs list L0, the configs list is
\* L0 followed by exactly one sub-config per chained call, in call order: a
\* chained call appends one sub-config behind the earlier ones and drops,
\* reorders or replaces none of them, one of the same kind included; and
\* build() returns the enable key and the wire key of every field set to a
\* value of every one of them.
C25_ConfigsAccumulateInOrder ==
    [][ /\ parser' # NoParser =>
              SubSeq(parser'.configs, 1, Len(call'.configs)) = call'.configs
        /\ (parser # NoParser /\ call' = call /\ Len(given') = Len(given) + 1) =>
              /\ Len(parser'.configs) = Len(parser.configs) + 1
              /\ SubSeq(parser'.configs, 1, Len(parser.configs)) = parser.configs
              /\ given'[Len(given')] \subseteq
                    fields_set(parser'.configs[Len(parser'.configs)])
        /\ (parser # NoParser /\ builds' = builds + 1) =>
              \A i \in 1..Len(parser.configs) :
                  /\ GetAttr(parser.configs[i], "enable_key").v \in DOMAIN result'
                  /\ \A item \in SetItemsAt(i) : item[1] \in DOMAIN result' ]_vars

\* A parser constructed with one sub-config, a chained call of the same kind
\* after it, then build().
C25_Witness ==
    /\ Built
    /\ Len(call.configs) = 1 /\ Len(parser.configs) = 2
    /\ parser.configs[1] = call.configs[1]
    /\ parser.configs[2].cls = parser.configs[1].cls
    /\ parser.configs[2] # parser.configs[1]

\* ---------------------------------------------------------------------------
\* Two parser instances: claims.
\* ---------------------------------------------------------------------------

\* C26: two separately constructed parsers share no sub-config state: in any
\* interleaving of attachments and build() calls on the two, both constructed
\* without a configs argument included, an attachment on one changes neither
\* the configs list of the other nor what build() of the other returns.
C26_InstancesShareNothing ==
    [][ /\ (parser # NoParser /\ call' = call /\ Len(given') = Len(given) + 1) =>
              /\ peer' = peer
              /\ peer # NoParser => build(peer').params = build(peer).params
        /\ (peer # NoParser /\ peer' # peer) =>
              /\ parser' = parser
              /\ parser # NoParser => build(parser').params = build(parser).params
      ]_vars

\* Two instances constructed without a configs argument; one has been attached
\* to twice and built, the other once.
C26_Witness ==
    /\ parser # NoParser /\ peer # NoParser
    /\ call.configs = << >>
    /\ Built
    /\ Len(parser.configs) = 2 /\ Len(peer.configs) = 1
    /\ peer.configs[1].cls = "GroupParamsConfig"
    /\ \A i \in 1..2 : parser.configs[i].cls # "GroupParamsConfig"

\* ---------------------------------------------------------------------------
\* JSON facets: claims.
\* ---------------------------------------------------------------------------

\* A map that carries count or buckets.
CarriesCountOrBuckets(val) ==
    val.k = "dict" /\ \E j \in 1..Len(val.v) : val.v[j][1] \in {"count", "buckets"}

RECURSIVE NodeFollowsRule(_, _)

\* The items of one level (a node or a bucket), its own keys aside, are each
\* classified once in what was decoded from them: a map that carries count or
\* buckets is a child facet decoded by the same rule, anything else a metric
\* holding the raw value.
ClassifiedOnce(items, own, decoded) ==
    LET keys == { items[i][1] : i \in 1..Len(items) } \ own
        facetKeys == { decoded.facets.v[j][1] : j \in 1..Len(decoded.facets.v) }
        metricKeys == { decoded.metrics.v[j][1] : j \in 1..Len(decoded.metrics.v) }
    IN  /\ facetKeys \cap metricKeys = {}
        /\ facetKeys \cup metricKeys = keys
        /\ Len(decoded.facets.v) + Len(decoded.metrics.v) = Cardinality(keys)
        /\ \A i \in 1..Len(items) :
              items[i][1] \notin own =>
                 IF CarriesCountOrBuckets(items[i][2])
                 THEN \E j \in 1..Len(decoded.facets.v) :
                         /\ decoded.facets.v[j][1] = items[i][1]
                         /\ NodeFollowsRule(items[i][2], decoded.facets.v[j][2])
                 ELSE \E j \in 1..Len(decoded.metrics.v) : decoded.metrics.v[j] = items[i]

\* The node decoded from data follows the rule at every level: its own items,
\* and the items of each of its bucket maps, in order.
NodeFollowsRule(data, node) ==
    LET listed == { i \in 1..Len(data.v) : data.v[i][1] = "buckets" /\ data.v[i][2].k = "list" }
        raw == IF listed = {} THEN << >> ELSE data.v[CHOOSE i \in listed : TRUE][2].v
        maps == SelectSeq(raw, LAMBDA b : b.k = "dict")
    IN  /\ ClassifiedOnce(data.v, {"count", "missing", "buckets"}, node)
        /\ Len(node.buckets) = Len(maps)
        /\ \A i \in 1..Len(maps) :
              ClassifiedOnce(maps[i].v, {"val", "count"}, node.buckets[i])

\* C27: decoding a JSON facets object of any nesting depth ends, and what it
\* returns classifies every key once at each level: a key whose value is a map
\* with count or buckets is a child facet decoded by the same rule, every other
\* key but the node's own count / missing / buckets (val / count in a bucket)
\* is a metric holding the raw value; no key is dropped, none is both.  (A
\* decode that ends with a validation error returns no node.)
C27_EveryKeyClassifiedOnce ==
    op.name = "from_dict" =>
        /\ (raised = "") = (returned # Nothing)
        /\ raised = "" => NodeFollowsRule(op.data, returned)

\* A decoded node with a bucket that holds a value and a child facet, the
\* child itself holding a bucket with a child facet, a metric map and a count.
C27_Witness ==
    /\ op.name = "from_dict" /\ raised = ""
    /\ Len(returned.buckets) = 1
    /\ returned.buckets[1].value = StrV("b") /\ returned.buckets[1].count = IntV(0)
    /\ \E j \in 1..Len(returned.buckets[1].facets.v) :
          LET child == returned.buckets[1].facets.v[j][2]
          IN  /\ child.count = IntV(3)
              /\ Len(child.buckets) = 1 /\ Len(child.buckets[1].facets.v) = 1
              /\ \E m \in 1..Len(child.metrics.v) : child.metrics.v[m][2].k = "dict"

\* ---------------------------------------------------------------------------
\* The client: claims on search parameters, delete bodies and the two clients.
\* ---------------------------------------------------------------------------

\* C28: building search parameters does not mutate the caller's input: after
\* search(d, **kwargs) with a parameter dict d, d has the keys and values it
\* had before the call; the keyword parameters and the default wt=json go
\* into a map of their own.
C28_CallerDictUnchanged ==
    (op.name = "search" /\ op.query.k = "params") => op.held = op.query

\* C29: delete(ids=[...]) with several ids, no query and commit left at its
\* default sends the JSON body {"delete": {"id": ids}} with the params
\* {"commit": "true"}, on both clients.
C29_DeleteByIdsBody ==
    (/\ op.name = "delete" /\ op.query = NoneV
     /\ op.ids.k = "list" /\ Len(op.ids.v) >= 2
     /\ raised # "ValueError") =>
        /\ requests[Len(requests)].method = "POST"
        /\ requests[Len(requests)].params = [commit |-> StrV("true")]
        /\ requests[Len(requests)].json = [delete |-> [id |-> op.ids]]

\* C30: SolrClient and AsyncSolrClient build the same requests: for the same
\* call with the same arguments and the same current collection, each of add,
\* delete, commit and search that issues a request issues it with the same
\* method to the same endpoint path under the current collection, whichever
\* client it is called on.
C30_SameEndpointOnBothClients ==
    (/\ op.name \in {"add", "delete", "commit", "search"}
     /\ raised # "ValueError") =>
        LET request == requests[Len(requests)]
        IN  /\ request.method = (IF op.name \in {"add", "delete"} THEN "POST" ELSE "GET")
            /\ request.url = PyStr(client.collection) \o
                    (CASE op.name = "add" -> "/update/json/docs"
                       [] op.name = "search" -> "/select"
                       [] OTHER -> "/update")
====
